---- MODULE Spec2Model ----
(***************************************************************************)
(* wyd ("What You're Doing"): a job board with an active job stack, a      *)
(* list of suspended stacks with timers, a reminder tick (update_timers),  *)
(* and a background notifier coordinated through a lock file.              *)
(*                                                                         *)
(* Time is an integer count of clock units, TicksPerSec units per second,  *)
(* so that instants between whole seconds exist: chrono's DateTime<Utc>    *)
(* has sub-second resolution, Duration::num_seconds() and the ts_seconds   *)
(* serialisation drop it.  A handler reads the clock once (its calls of    *)
(* Utc::now() fall on the same instant).                                   *)
(*                                                                         *)
(* The board variables hold the board as the last invocation left it in    *)
(* memory; jobs.ron holds its serialisation, and every invocation starts   *)
(* from LoadBoard, the deserialised file.                                  *)
(* The persistence specification follows the files themselves, jobs.ron    *)
(* and the backup of the day, in the variable disk; the other              *)
(* specifications leave it alone.                                          *)
(***************************************************************************)
EXTENDS Integers, Sequences, FiniteSets, TLC

VARIABLES
    now,               \* the wall clock, Utc::now()
    active_stack,      \* JobBoard.active_stack
    suspended_stacks,  \* JobBoard.suspended_stacks
    work_state,        \* JobBoard.work_state
    op,                \* the last operation: name, inputs, instant, result
    prev_op,           \* after a tick: the operation that tick followed
    pre,               \* the board that operation started from (as loaded)
    pre_prev,          \* in a sequence of JobBoard calls: the board the call before started from
    idle_alarms,       \* the instants of the idle alarms raised so far
    nops,              \* operations run so far
    nadv,              \* clock advances so far
    lock,              \* the lock file .notifier
    notifiers,         \* the notifier processes, by the number of their spawn
    spawning,          \* a spawn_notifier between deleting the lock file and writing it
    last_write,        \* who wrote jobs.ron last, and what that write replaced
    disk               \* the files of the persistence section: jobs.ron and the day's backup

vars == <<now, active_stack, suspended_stacks, work_state, op, prev_op, pre, pre_prev,
          idle_alarms, nops, nadv, lock, notifiers, spawning, last_write, disk>>

----------------------------------------------------------------------------
(* Bounds of the model *)

TicksPerSec == 2
MaxOps == 4
MaxAdvance == 1
MaxTickOps == 3
MaxTickAdvance == 3
MaxJobs == 2
MaxSpawns == 2
MaxNotifierOps == 2
MaxNotifierAdvance == 1
MaxBoardOps == 2
MaxTimeboxOps == 2
MaxTimeboxAdvance == 2
MaxBoardAdvance == 1
MaxBoardIndex == 2
MaxDiskOps == 3
MaxDiskAdvance == 2
MaxAlarmJobs == 1
MaxAlarmStacks == 6
AlarmLag == 1
MaxLate == 2

(* Program constants *)

COOLDOWN_SECONDS == 30
SLACK_LIMIT_SECONDS == 5 * 60
MIN_NOTIFICATION_DELAY_SECONDS == 60 * 3
ALARM_SECONDS == 5
SLEEP_SECONDS == 1

Seconds(n) == n * TicksPerSec

\* Option<T>
None == <<>>
Some(x) == <<x>>
IsSome(o) == o # None
Unwrap(o) == o[1]

\* Duration::num_seconds(): whole seconds, truncated toward zero
num_seconds(d) == IF d >= 0 THEN d \div TicksPerSec ELSE -((-d) \div TicksPerSec)

\* serde ts_seconds: the instant is written as its whole-second timestamp
ts_seconds(t) == t - (t % TicksPerSec)

----------------------------------------------------------------------------
(* Inputs *)

Labels == { <<"r">>, <<"e", "r">> }
Patterns == { <<"r">>, <<"e">> }
Timeboxes == { None, Some(Seconds(5 * 60)) }
TimerDelays == { Seconds(30) }
\* --reason, "None" when the flag is not given
Reasons == { "None" }
ClockSteps == { 1, Seconds(COOLDOWN_SECONDS), Seconds(SLACK_LIMIT_SECONDS),
                Seconds(SLACK_LIMIT_SECONDS + 1) }

\* str::contains
Contains(s, p) ==
    \E i \in 0..(Len(s) - Len(p)) : SubSeq(s, i + 1, i + Len(p)) = p

substring_matcher(pattern) == [s \in Labels |-> Contains(s, pattern)]

----------------------------------------------------------------------------
(* Job *)

Job(label, begin_date, timebox) ==
    [label |-> label, begin_date |-> begin_date, timebox |-> timebox,
     last_notification |-> None]

\* a remainder that goes below zero instead of stopping at it
timebox_remaining_signed(job, t) ==
    IF IsSome(job.timebox)
    THEN Some(job.begin_date + Unwrap(job.timebox) - t)
    ELSE None

timebox_remaining(job, t) ==
    IF IsSome(job.timebox)
    THEN LET d == job.begin_date + Unwrap(job.timebox) - t
         IN  IF d >= 0 THEN Some(d) ELSE Some(0)
    ELSE None

\* an expiry that begins one instant after begin_date + timebox
timebox_expired_after(job, t) ==
    IsSome(job.timebox) /\ t > job.begin_date + Unwrap(job.timebox)

timebox_expired(job, t) == timebox_remaining(job, t) = Some(0)

----------------------------------------------------------------------------
(* WorkState *)

Off == <<"Off">>
Working == <<"Working">>
SlackingSince(d) == <<"SlackingSince", d>>

----------------------------------------------------------------------------
(* JobBoard *)

Board(a, s, w) == [active_stack |-> a, suspended_stacks |-> s, work_state |-> w]

\* Vec::split_off(index): the elements from index (0-based) on
Suffix(stack, index) == SubSeq(stack, index + 1, Len(stack))

SuspendedStack(data, reason, timer, t) ==
    [data |-> data, reason |-> reason, date_suspended |-> t, timer |-> timer,
     last_notifiaction |-> None]

\* the board jobs.ron gives back: begin_date and date_suspended go through ts_seconds
LoadJob(job) == [job EXCEPT !.begin_date = ts_seconds(@)]

LoadStack(stack) ==
    [stack EXCEPT !.data = [i \in DOMAIN @ |-> LoadJob(@[i])],
                  !.date_suspended = ts_seconds(@)]

LoadFile(b) ==
    Board([i \in DOMAIN b.active_stack |-> LoadJob(b.active_stack[i])],
          [i \in DOMAIN b.suspended_stacks |-> LoadStack(b.suspended_stacks[i])],
          b.work_state)

CurrentBoard == Board(active_stack, suspended_stacks, work_state)

LoadBoard == LoadFile(CurrentBoard)

\* what a file holds: nothing (the file is missing), no bytes, bytes that are
\* not a board, or the text of a board
Missing == <<"missing">>
EmptyFile == <<"empty">>
Malformed == <<"malformed">>

\* ron::ser::to_string_pretty: the text carries begin_date and date_suspended
\* as whole-second timestamps
to_string_pretty(b) == <<"ron", LoadFile(b)>>

\* ron::from_str on a text that to_string_pretty wrote
from_str(text) == text[2]

\* WorkState::default()
DefaultWorkState == Off

\* JobBoard::default()
DefaultBoard == Board(<<>>, <<>>, DefaultWorkState)

\* jobs.ron and the backup of the day
Files(jobs, backup) == [jobs |-> jobs, backup |-> backup]

NoFiles == Files(Missing, Missing)

\* a load that resets a malformed file to the default board
load_resets_malformed(d) ==
    IF d.jobs \in {Missing, EmptyFile, Malformed}
    THEN [ok |-> TRUE, board |-> DefaultBoard, disk |-> [d EXCEPT !.jobs = EmptyFile]]
    ELSE [ok |-> TRUE, board |-> from_str(d.jobs), disk |-> d]

\* JobBoard::load: a missing file is created empty, an empty file gives the
\* default board, a text that does not parse panics with the file as it was
load(d) ==
    IF d.jobs \in {Missing, EmptyFile}
    THEN [ok |-> TRUE, board |-> DefaultBoard, disk |-> [d EXCEPT !.jobs = EmptyFile]]
    ELSE IF d.jobs = Malformed
    THEN [ok |-> FALSE, board |-> DefaultBoard, disk |-> d]
    ELSE [ok |-> TRUE, board |-> from_str(d.jobs), disk |-> d]

\* what can happen to the files during an invocation: the append to the log
\* that print makes, the copy to the backup and the append to the log that
\* save makes succeed or not; the write succeeds, fails before the file is
\* opened, or fails after it was truncated or partly written
WriteOutcomes == { "ok", "unopened", "truncated", "partial" }

Env(print, copy, log, write) == [print |-> print, copy |-> copy, log |-> log, write |-> write]

\* without the combinations that differ only in an outcome nothing asks for
Envs ==
    { Env(FALSE, TRUE, TRUE, "ok"), Env(TRUE, FALSE, FALSE, "ok") } \cup
    { Env(TRUE, copy, TRUE, write) : copy \in BOOLEAN, write \in WriteOutcomes }

\* WydApplication::save: fs::copy to the backup; when that fails, append_to_log,
\* which panics when the log cannot be written; then fs::write
save(b, d, env) ==
    LET copied == env.copy /\ d.jobs # Missing
        after_copy == IF copied THEN [d EXCEPT !.backup = d.jobs] ELSE d
    IN  IF ~copied /\ ~env.log
        THEN [ok |-> FALSE, panic |-> TRUE, disk |-> after_copy]
        ELSE IF env.write = "ok"
        THEN [ok |-> TRUE, panic |-> FALSE,
              disk |-> [after_copy EXCEPT !.jobs = to_string_pretty(b)]]
        ELSE [ok |-> FALSE, panic |-> FALSE,
              disk |-> [after_copy EXCEPT !.jobs =
                           CASE env.write = "unopened" -> @
                             [] env.write = "truncated" -> EmptyFile
                             [] env.write = "partial" -> Malformed]]

\* index of the first job whose label matches, 0-based; -1 for None
RECURSIVE find_job_from(_, _, _)
find_job_from(stack, predicate, i) ==
    IF i > Len(stack) THEN -1
    ELSE IF predicate[stack[i].label] THEN i - 1
    ELSE find_job_from(stack, predicate, i + 1)

\* a search that returns the highest matching index
find_job_last(b, predicate) ==
    LET matches == { i \in DOMAIN b.active_stack : predicate[b.active_stack[i].label] }
    IN  IF matches = {} THEN -1
        ELSE (CHOOSE i \in matches : \A j \in matches : j <= i) - 1

find_job(b, predicate) == find_job_from(b.active_stack, predicate, 1)

EffectiveTimer(stack, t) == IF IsSome(stack.timer) THEN Unwrap(stack.timer) ELSE t

\* slice::sort_by is a stable sort: an element goes behind every element
\* that does not compare greater
\* an insertion that goes in front of the elements that compare equal: the
\* sort it gives is not stable
InsertSortedFirst(sorted, stack, t) ==
    LET k == Cardinality({i \in DOMAIN sorted :
                 EffectiveTimer(sorted[i], t) < EffectiveTimer(stack, t)})
    IN  SubSeq(sorted, 1, k) \o <<stack>> \o SubSeq(sorted, k + 1, Len(sorted))

InsertSorted(sorted, stack, t) ==
    LET k == Cardinality({i \in DOMAIN sorted :
                 EffectiveTimer(sorted[i], t) <= EffectiveTimer(stack, t)})
    IN  SubSeq(sorted, 1, k) \o <<stack>> \o SubSeq(sorted, k + 1, Len(sorted))

RECURSIVE StableSort(_, _)
StableSort(stacks, t) ==
    IF Len(stacks) <= 1 THEN stacks
    ELSE InsertSorted(StableSort(SubSeq(stacks, 1, Len(stacks) - 1), t),
                      stacks[Len(stacks)], t)

sort_suspended_stacks(b, t) ==
    [b EXCEPT !.suspended_stacks = StableSort(@, t)]

\* an insertion that forgets to sort
add_suspended_stack_unsorted(b, stack, t) ==
    [b EXCEPT !.suspended_stacks = Append(@, stack)]

add_suspended_stack(b, stack, t) ==
    sort_suspended_stacks([b EXCEPT !.suspended_stacks = Append(@, stack)], t)

\* Result<(), ()> with the board the call leaves
Ok(b) == [ok |-> TRUE, panic |-> FALSE, board |-> b]
Err(b) == [ok |-> FALSE, panic |-> FALSE, board |-> b]

\* the call did not return: the thread panicked
Panicked(b) == [ok |-> FALSE, panic |-> TRUE, board |-> b]

\* Vec::split_off(at) panics if at > len
split_off_panics(stack, at) == at > Len(stack)

\* a suspend without the index check
suspend_at_unchecked(b, index, reason, timer, t) ==
    IF split_off_panics(b.active_stack, index) THEN Panicked(b)
    ELSE Ok(add_suspended_stack([b EXCEPT !.active_stack = SubSeq(@, 1, index)],
                SuspendedStack(Suffix(b.active_stack, index), reason, timer, t), t))

\* a suspend that copies the jobs and leaves them on the active stack too
suspend_at_copies(b, index, reason, timer, t) ==
    IF index >= Len(b.active_stack) THEN Err(b)
    ELSE Ok(add_suspended_stack(b,
                SuspendedStack(Suffix(b.active_stack, index), reason, timer, t), t))

\* a suspend that takes only the jobs above the given one
suspend_at_above(b, index, reason, timer, t) ==
    IF index >= Len(b.active_stack) THEN Err(b)
    ELSE Ok(add_suspended_stack([b EXCEPT !.active_stack = SubSeq(@, 1, index + 1)],
                SuspendedStack(Suffix(b.active_stack, index + 1), reason, timer, t), t))

suspend_at(b, index, reason, timer, t) ==
    IF index >= Len(b.active_stack) THEN Err(b)
    ELSE IF split_off_panics(b.active_stack, index) THEN Panicked(b)
    ELSE LET jobs_to_suspend == SubSeq(b.active_stack, index + 1, Len(b.active_stack))
             rest == [b EXCEPT !.active_stack = SubSeq(@, 1, index)]
         IN  Ok(add_suspended_stack(rest, SuspendedStack(jobs_to_suspend, reason, timer, t), t))

\* a suspend by name that sorts the suspended stacks before it reports that
\* nothing matched
suspend_matching_sorts(b, pattern, reason, timer, t) ==
    LET i == find_job(b, pattern)
    IN  IF i >= 0 THEN suspend_at(b, i, reason, timer, t)
        ELSE Err(sort_suspended_stacks(b, t))

suspend_matching(b, pattern, reason, timer, t) ==
    LET i == find_job(b, pattern)
    IN  IF i >= 0 THEN suspend_at(b, i, reason, timer, t) ELSE Err(b)

\* a resume that leaves the jobs their old begin_date
resume_at_index_old_dates(b, index, t) ==
    IF index >= Len(b.suspended_stacks) THEN Err(b)
    ELSE Ok([b EXCEPT
               !.suspended_stacks = SubSeq(@, 1, index) \o SubSeq(@, index + 2, Len(@)),
               !.active_stack = @ \o b.suspended_stacks[index + 1].data])

\* a resume that takes the first stack whatever the index
resume_at_index_first(b, index, t) ==
    IF index >= Len(b.suspended_stacks) THEN Err(b)
    ELSE Ok([b EXCEPT
               !.suspended_stacks = SubSeq(@, 2, Len(@)),
               !.active_stack = @ \o [i \in DOMAIN b.suspended_stacks[1].data |->
                                        [b.suspended_stacks[1].data[i] EXCEPT !.begin_date = t]]])

\* a resume that removes the stack and forgets its jobs
resume_at_index_drops(b, index, t) ==
    IF index >= Len(b.suspended_stacks) THEN Err(b)
    ELSE Ok([b EXCEPT
               !.suspended_stacks = SubSeq(@, 1, index) \o SubSeq(@, index + 2, Len(@))])

resume_at_index(b, index, t) ==
    IF index >= Len(b.suspended_stacks) THEN Err(b)
    ELSE LET suspended_stack == b.suspended_stacks[index + 1]
             data == [i \in DOMAIN suspended_stack.data |->
                         [suspended_stack.data[i] EXCEPT !.begin_date = t]]
         IN  Ok([b EXCEPT
                   !.suspended_stacks = SubSeq(@, 1, index) \o SubSeq(@, index + 2, Len(@)),
                   !.active_stack = @ \o data])

\* a scan that matches the label of any job of a stack
RECURSIVE resume_scan_any_label(_, _, _)
resume_scan_any_label(stacks, pattern, i) ==
    IF i > Len(stacks) THEN Len(stacks)
    ELSE IF \E j \in DOMAIN stacks[i].data : pattern[stacks[i].data[j].label] THEN i - 1
    ELSE resume_scan_any_label(stacks, pattern, i + 1)

RECURSIVE resume_scan(_, _, _)
resume_scan(stacks, pattern, i) ==
    IF i > Len(stacks) THEN Len(stacks)
    ELSE IF pattern[stacks[i].data[1].label] THEN i - 1
    ELSE resume_scan(stacks, pattern, i + 1)

resume_matching(b, pattern, t) ==
    resume_at_index(b, resume_scan(b.suspended_stacks, pattern, 1), t)

push(b, job) == [b EXCEPT !.active_stack = Append(@, job)]

\* a pop that takes the oldest job
pop_front(b) ==
    IF Len(b.active_stack) = 0 THEN b
    ELSE [b EXCEPT !.active_stack = Tail(@)]

pop(b) ==
    IF Len(b.active_stack) = 0 THEN b
    ELSE [b EXCEPT !.active_stack = SubSeq(@, 1, Len(@) - 1)]

\* the Option<Job> that pop returns
popped(b) ==
    IF Len(b.active_stack) = 0 THEN None ELSE Some(b.active_stack[Len(b.active_stack)])

\* one entry per stack: its timer or its suspension date, then its labels
suspended_stack_summary(b) ==
    [k \in DOMAIN b.suspended_stacks |->
        LET stack == b.suspended_stacks[k]
        IN  <<IF IsSome(stack.timer) THEN <<"timer", Unwrap(stack.timer)>>
              ELSE <<"suspended at", stack.date_suspended>>,
              [i \in DOMAIN stack.data |-> stack.data[i].label]>>]

suspended_tasks_ready(b, t) ==
    IF Len(b.suspended_stacks) > 0
    THEN LET task == b.suspended_stacks[Len(b.suspended_stacks)]
         IN  IF IsSome(task.timer) THEN Unwrap(task.timer) < t ELSE TRUE
    ELSE FALSE

empty_stack_message(b, t) ==
    IF suspended_tasks_ready(b, t)
    THEN <<"You finished your jobs in progress", suspended_stack_summary(b)>>
    ELSE <<"No jobs in progress, and no suspended tasks">>

----------------------------------------------------------------------------
(* Reminders *)

TimerState(send_alarm, needs_save) == [send_alarm |-> send_alarm, needs_save |-> needs_save]

\* a cooldown that ends one instant early
should_notify_early(last_notified, t) ==
    IF IsSome(last_notified)
    THEN t - Unwrap(last_notified) >= Seconds(COOLDOWN_SECONDS)
    ELSE TRUE

should_notify(last_notified, t) ==
    IF IsSome(last_notified)
    THEN t - Unwrap(last_notified) > Seconds(COOLDOWN_SECONDS)
    ELSE TRUE

\* a timer that counts as exhausted at the instant it names
timer_exhausted_at(stack, t) ==
    IF IsSome(stack.timer) THEN Unwrap(stack.timer) <= t ELSE FALSE

timer_exhausted(stack, t) ==
    IF IsSome(stack.timer) THEN Unwrap(stack.timer) < t ELSE FALSE

\* a scan that keeps the last due job instead of stopping at the first
RECURSIVE last_due_job(_, _, _)
last_due_job(stack, i, t) ==
    IF i > Len(stack) THEN 0
    ELSE LET above == last_due_job(stack, i + 1, t)
         IN  IF above > 0 THEN above
             ELSE IF timebox_expired(stack[i], t)
                     /\ should_notify(stack[i].last_notification, t) THEN i
             ELSE 0

\* the first loop of update_timers: the position (from 1) of the job it stamps, 0 for none
RECURSIVE first_due_job(_, _, _)
first_due_job(stack, i, t) ==
    IF i > Len(stack) THEN 0
    ELSE IF timebox_expired(stack[i], t) /\ should_notify(stack[i].last_notification, t) THEN i
    ELSE first_due_job(stack, i + 1, t)

\* the second loop: the position (from 1) of the stack it stamps, 0 for none
RECURSIVE first_due_stack(_, _, _)
first_due_stack(stacks, i, t) ==
    IF i > Len(stacks) THEN 0
    ELSE IF timer_exhausted(stacks[i], t) /\ should_notify(stacks[i].last_notifiaction, t) THEN i
    ELSE first_due_stack(stacks, i + 1, t)

\* slacking taken as having no active job at all
is_idle(b) == Len(b.active_stack) = 0

is_slacking(b) == \A i \in DOMAIN b.active_stack : b.active_stack[i].timebox = None

\* a threshold compared on the exact duration
slack_over_exact(slack_date, t) == t - slack_date > Seconds(SLACK_LIMIT_SECONDS)

slack_over(slack_date, t) == num_seconds(t - slack_date) > SLACK_LIMIT_SECONDS

\* the work_state part of update_timers, reached when no job and no stack fired
\* an idle step that alarms and leaves the slacking-since marker where it was
idle_step_keeps_marker(b, t) ==
    IF b.work_state = Off
    THEN [board |-> b, ts |-> TimerState(FALSE, FALSE), fired |-> {}]
    ELSE LET slack_date == IF b.work_state = Working THEN t ELSE b.work_state[2]
             alarm == is_slacking(b) /\ slack_over(slack_date, t)
             new_work_state ==
                 IF is_slacking(b) THEN SlackingSince(slack_date) ELSE Working
         IN  [board |-> [b EXCEPT !.work_state = new_work_state],
              ts |-> TimerState(alarm, new_work_state # b.work_state),
              fired |-> IF alarm THEN {<<"idle">>} ELSE {}]

idle_step(b, t) ==
    IF b.work_state = Off
    THEN [board |-> b, ts |-> TimerState(FALSE, FALSE), fired |-> {}]
    ELSE LET slack_date == IF b.work_state = Working THEN t ELSE b.work_state[2]
             alarm == is_slacking(b) /\ slack_over(slack_date, t)
             new_work_state ==
                 IF is_slacking(b)
                 THEN IF slack_over(slack_date, t) THEN SlackingSince(t)
                      ELSE SlackingSince(slack_date)
                 ELSE Working
         IN  [board |-> [b EXCEPT !.work_state = new_work_state],
              ts |-> TimerState(alarm, new_work_state # b.work_state),
              fired |-> IF alarm THEN {<<"idle">>} ELSE {}]

\* a tick that goes on to the suspended stacks and the work state after it
\* stamped a job
update_timers_no_return(b, t) ==
    LET j == first_due_job(b.active_stack, 1, t)
        k == first_due_stack(b.suspended_stacks, 1, t)
        b1 == IF j > 0 THEN [b EXCEPT !.active_stack[j].last_notification = Some(t)] ELSE b
        b2 == IF k > 0 THEN [b1 EXCEPT !.suspended_stacks[k].last_notifiaction = Some(t)] ELSE b1
        r == idle_step(b2, t)
    IN  [board |-> r.board,
         ts |-> TimerState(j > 0 \/ k > 0 \/ r.ts.send_alarm, j > 0 \/ k > 0 \/ r.ts.needs_save),
         fired |-> r.fired \cup (IF j > 0 THEN {<<"job", j - 1>>} ELSE {})
                           \cup (IF k > 0 THEN {<<"stack", k - 1>>} ELSE {})]

\* WydApplication::update_timers: the board it leaves, the TimerState it returns,
\* and what raised the alarm (<<"job", index>>, <<"stack", index>>, <<"idle">>)
update_timers(b, t) ==
    LET j == first_due_job(b.active_stack, 1, t)
        k == first_due_stack(b.suspended_stacks, 1, t)
    IN  IF j > 0
        THEN [board |-> [b EXCEPT !.active_stack[j].last_notification = Some(t)],
              ts |-> TimerState(TRUE, TRUE), fired |-> {<<"job", j - 1>>}]
        ELSE IF k > 0
        THEN [board |-> [b EXCEPT !.suspended_stacks[k].last_notifiaction = Some(t)],
              ts |-> TimerState(TRUE, TRUE), fired |-> {<<"stack", k - 1>>}]
        ELSE idle_step(b, t)

----------------------------------------------------------------------------
(* Invocations: each loads jobs.ron, runs one operation, saves *)

NoTimerState == TimerState(FALSE, FALSE)

OpRecord(name, arg, ok, ts, fired) ==
    [name |-> name, arg |-> arg, at |-> now, ok |-> ok, ret |-> None, ts |-> ts,
     fired |-> fired]

NoOp == [name |-> "none", arg |-> None, at |-> 0, ok |-> TRUE, ret |-> None,
         ts |-> NoTimerState, fired |-> {}]

NumJobs(b) ==
    LET RECURSIVE count(_)
        count(i) == IF i > Len(b.suspended_stacks) THEN 0
                    ELSE Len(b.suspended_stacks[i].data) + count(i + 1)
    IN  Len(b.active_stack) + count(1)

\* jobs.ron was last written by a command
CommandWrite ==
    [by |-> 0, stale |-> FALSE, loaded |-> Board(<<>>, <<>>, Off),
     copy |-> Board(<<>>, <<>>, Off), replaced |-> Board(<<>>, <<>>, Off)]

\* the invocation ends with the board b in memory (and in jobs.ron)
Finish(b, record) ==
    /\ active_stack' = b.active_stack
    /\ suspended_stacks' = b.suspended_stacks
    /\ work_state' = b.work_state
    /\ op' = record
    /\ prev_op' = IF record.name \in {"tick", "remind"} THEN op ELSE NoOp
    /\ pre' = LoadBoard
    /\ idle_alarms' = IF <<"idle">> \in record.fired THEN Append(idle_alarms, now)
                      ELSE idle_alarms
    /\ nops' = nops + 1
    /\ last_write' = CommandWrite
    /\ UNCHANGED <<now, nadv, lock, notifiers, spawning, pre_prev, disk>>

CanRun == nops < MaxOps

create_job(label, timebox, retro) ==
    /\ CanRun
    /\ NumJobs(LoadBoard) < MaxJobs
    /\ LET b == LoadBoard
           begin_date == IF IsSome(retro) THEN now - Unwrap(retro) ELSE now
           refused == /\ Len(b.active_stack) > 0
                      /\ IsSome(b.active_stack[Len(b.active_stack)].timebox)
       IN  Finish(IF refused THEN b ELSE push(b, Job(label, begin_date, timebox)),
                  OpRecord("create_job", <<label, timebox>>, ~refused, NoTimerState, {}))

create_suspended_job(label, reason, timer) ==
    /\ CanRun
    /\ NumJobs(LoadBoard) < MaxJobs
    /\ LET b == LoadBoard
           new_stack == SuspendedStack(<<Job(label, now, None)>>, reason, timer, now)
       IN  Finish(add_suspended_stack(b, new_stack, now),
                  OpRecord("create_suspended_job", <<label, timer>>, TRUE, NoTimerState, {}))

suspend_job_named(pattern, reason, timer) ==
    /\ CanRun
    /\ LET r == suspend_matching(LoadBoard, substring_matcher(pattern), reason, timer, now)
       IN  Finish(r.board, OpRecord("suspend_job_named", <<pattern, timer>>, r.ok, NoTimerState, {}))

resume_job_named(pattern) ==
    /\ CanRun
    /\ LET r == IF pattern = <<>>
                THEN resume_at_index(LoadBoard, 0, now)
                ELSE resume_matching(LoadBoard, substring_matcher(pattern), now)
       IN  Finish(r.board, OpRecord("resume_job_named", pattern, r.ok, NoTimerState, {}))

complete_current_job ==
    /\ CanRun
    /\ LET b == LoadBoard
       IN  Finish(pop(b), OpRecord("complete_current_job", None, Len(b.active_stack) > 0,
                                   NoTimerState, {}))

apply_timebox(timebox) ==
    /\ CanRun
    /\ LET b == LoadBoard
           n == Len(b.active_stack)
       IN  Finish(IF n > 0
                  THEN [b EXCEPT !.active_stack[n].timebox = timebox,
                                 !.active_stack[n].begin_date = now]
                  ELSE b,
                  OpRecord("apply_timebox", timebox, n > 0, NoTimerState, {}))

set_work_state(new_state) ==
    /\ CanRun
    /\ Finish([LoadBoard EXCEPT !.work_state = new_state],
              OpRecord("set_work_state", new_state, TRUE, NoTimerState, {}))

\* one tick: load, update_timers, save when needs_save
tick ==
    /\ CanRun
    /\ LET r == update_timers(LoadBoard, now)
       IN  Finish(r.board, OpRecord("tick", None, TRUE, r.ts, r.fired))

\* time passes
advance(d, limit) ==
    /\ nadv < limit
    /\ now' = now + d
    /\ nadv' = nadv + 1
    /\ UNCHANGED <<active_stack, suspended_stacks, work_state, op, prev_op, pre, pre_prev,
                   idle_alarms, nops, lock, notifiers, spawning, last_write, disk>>

----------------------------------------------------------------------------
(* The notifier: lock file, spawn, kill, and the loop of become_notifier *)

\* the lock file: missing, or its bytes
Absent == [exists |-> FALSE, len |-> 0, bytes |-> "none"]
Uuid(n) == [exists |-> TRUE, len |-> 16, bytes |-> n]
KillSentinel == [exists |-> TRUE, len |-> 4, bytes |-> "kill"]

NotifierIds == 1..MaxSpawns

Unborn ==
    [pc |-> "unborn", loaded |-> Board(<<>>, <<>>, Off), mem |-> Board(<<>>, <<>>, Off),
     ts |-> NoTimerState, read |-> Absent, reason |-> "none", seen |-> 0,
     superseded |-> FALSE, late |-> 0]

Running == { n \in NotifierIds : notifiers[n].pc \notin {"unborn", "exited"} }

NotifierUnchanged ==
    UNCHANGED <<now, op, prev_op, pre, pre_prev, idle_alarms, nops, nadv, spawning, disk>>

BoardUnchanged == UNCHANGED <<active_stack, suspended_stacks, work_state, last_write>>

\* spawn_notifier, first half: delete the lock file if it exists, draw a fresh Uuid
spawn_begin ==
    /\ spawning = None
    /\ \E n \in NotifierIds :
          /\ notifiers[n].pc = "unborn"
          /\ \A m \in NotifierIds : m < n => notifiers[m].pc # "unborn"
          /\ spawning' = Some(n)
    /\ lock' = Absent
    /\ UNCHANGED <<now, op, prev_op, pre, pre_prev, idle_alarms, nops, nadv, notifiers, disk>>
    /\ BoardUnchanged

\* history: content foreign to every running notifier has just been written to the
\* lock file; each of them starts counting the ticks it still performs
Overtaken ==
    [n \in NotifierIds |->
        IF n \in Running
        THEN [notifiers[n] EXCEPT !.superseded = TRUE, !.late = 0]
        ELSE notifiers[n]]

\* spawn_notifier, second half: write the Uuid, launch the process with it
spawn_finish ==
    /\ IsSome(spawning)
    /\ lock' = Uuid(Unwrap(spawning))
    /\ notifiers' = [Overtaken EXCEPT ![Unwrap(spawning)].pc = "poll"]
    /\ spawning' = None
    /\ UNCHANGED <<now, op, prev_op, pre, pre_prev, idle_alarms, nops, nadv, disk>>
    /\ BoardUnchanged

kill_notifier ==
    /\ lock # KillSentinel
    /\ lock' = KillSentinel
    /\ notifiers' = Overtaken
    /\ NotifierUnchanged
    /\ BoardUnchanged

Exit(n, why) == [notifiers EXCEPT ![n].pc = "exited", ![n].reason = why]

\* a comparison that never sees a foreign token
lock_mismatch_never(content, n) == FALSE

\* a comparison that looks only at content as long as a Uuid
lock_mismatch_same_length(content, n) == content.len = 16 /\ content # Uuid(n)

\* file_bytes.as_slice() != &id_buf
lock_mismatch(content, n) == content # Uuid(n)

\* the head of the loop: read the lock file if it exists, leave on other content
notifier_poll(n) ==
    /\ notifiers[n].pc = "poll"
    /\ notifiers' =
          IF lock.exists /\ lock_mismatch(lock, n)
          THEN [Exit(n, "lock") EXCEPT ![n].read = lock]
          ELSE [notifiers EXCEPT ![n].pc = "load", ![n].read = lock]
    /\ UNCHANGED lock
    /\ NotifierUnchanged
    /\ BoardUnchanged

\* history: the ticks of a notifier since the last write that superseded it (2 = more)
Late(n) ==
    IF notifiers[n].superseded /\ notifiers[n].late < MaxLate
    THEN notifiers[n].late + 1
    ELSE notifiers[n].late

\* an iteration that saves whatever the TimerState says
notifier_load_always_saves(n) ==
    /\ notifiers[n].pc = "load"
    /\ LET r == update_timers(LoadBoard, now)
       IN  notifiers' = [notifiers EXCEPT
              ![n].loaded = LoadBoard, ![n].mem = r.board, ![n].ts = r.ts,
              ![n].seen = nops, ![n].late = Late(n), ![n].pc = "save"]
    /\ UNCHANGED lock
    /\ NotifierUnchanged
    /\ BoardUnchanged

\* WydApplication::load, then update_timers on the loaded board: the tick
notifier_load(n) ==
    /\ notifiers[n].pc = "load"
    /\ LET r == update_timers(LoadBoard, now)
       IN  notifiers' = [notifiers EXCEPT
              ![n].loaded = LoadBoard, ![n].mem = r.board, ![n].ts = r.ts,
              ![n].seen = nops, ![n].late = Late(n),
              ![n].pc = IF r.ts.needs_save THEN "save"
                        ELSE IF r.ts.send_alarm THEN "alarm" ELSE "sleep"]
    /\ UNCHANGED lock
    /\ NotifierUnchanged
    /\ BoardUnchanged

\* the state file cannot be read or parsed: load fails and the process ends
notifier_load_fails(n) ==
    /\ notifiers[n].pc = "load"
    /\ notifiers' = Exit(n, "load")
    /\ UNCHANGED lock
    /\ NotifierUnchanged
    /\ BoardUnchanged

\* a save that keeps what is on disk
written_board_kept(mem, on_disk) == on_disk

\* fs::write(jobs.ron, serialised self.job_board): what jobs.ron holds afterwards
written_board(mem, on_disk) == mem

notifier_save(n) ==
    /\ notifiers[n].pc = "save"
    /\ LET b == written_board(notifiers[n].mem, CurrentBoard)
       IN  /\ active_stack' = b.active_stack
           /\ suspended_stacks' = b.suspended_stacks
           /\ work_state' = b.work_state
    /\ last_write' = [by |-> n, stale |-> nops > notifiers[n].seen,
                      loaded |-> notifiers[n].loaded, copy |-> notifiers[n].mem,
                      replaced |-> CurrentBoard]
    /\ notifiers' = [notifiers EXCEPT
          ![n].pc = IF notifiers[n].ts.send_alarm THEN "alarm" ELSE "sleep"]
    /\ UNCHANGED lock
    /\ NotifierUnchanged

\* self.save()? returns the error: become_notifier returns
notifier_save_fails(n) ==
    /\ notifiers[n].pc = "save"
    /\ notifiers' = Exit(n, "save")
    /\ UNCHANGED lock
    /\ NotifierUnchanged
    /\ BoardUnchanged

notifier_alarm(n) ==
    /\ notifiers[n].pc = "alarm"
    /\ notifiers' = [notifiers EXCEPT ![n].pc = "sleep"]
    /\ UNCHANGED lock
    /\ NotifierUnchanged
    /\ BoardUnchanged

\* play_alarm()? returns the error (or unwrap panics): the process ends
notifier_alarm_fails(n) ==
    /\ notifiers[n].pc = "alarm"
    /\ notifiers' = Exit(n, "alarm")
    /\ UNCHANGED lock
    /\ NotifierUnchanged
    /\ BoardUnchanged

\* a loop that reads the lock file only when it starts
notifier_sleep_to_load(n) ==
    /\ notifiers[n].pc = "sleep"
    /\ notifiers' = [notifiers EXCEPT ![n].pc = "load"]
    /\ UNCHANGED lock
    /\ NotifierUnchanged
    /\ BoardUnchanged

notifier_sleep(n) ==
    /\ notifiers[n].pc = "sleep"
    /\ notifiers' = [notifiers EXCEPT ![n].pc = "poll"]
    /\ UNCHANGED lock
    /\ NotifierUnchanged
    /\ BoardUnchanged

notifier_step(n) ==
    \/ notifier_poll(n)
    \/ notifier_load(n)
    \/ notifier_load_fails(n)
    \/ notifier_save(n)
    \/ notifier_save_fails(n)
    \/ notifier_alarm(n)
    \/ notifier_alarm_fails(n)
    \/ notifier_sleep(n)

Timers == { None } \cup { Some(now + d) : d \in TimerDelays }

Init ==
    /\ now = 0
    /\ active_stack = <<>>
    /\ suspended_stacks = <<>>
    /\ work_state = Off
    /\ op = NoOp
    /\ prev_op = NoOp
    /\ pre = Board(<<>>, <<>>, Off)
    /\ pre_prev = Board(<<>>, <<>>, Off)
    /\ idle_alarms = <<>>
    /\ nops = 0
    /\ nadv = 0
    /\ lock = Absent
    /\ notifiers = [n \in NotifierIds |-> Unborn]
    /\ spawning = None
    /\ last_write = CommandWrite
    /\ disk = NoFiles

Next ==
    \/ \E label \in Labels, timebox \in Timeboxes : create_job(label, timebox, None)
    \/ \E label \in Labels, reason \in Reasons, timer \in Timers :
          create_suspended_job(label, reason, timer)
    \/ \E pattern \in Patterns, reason \in Reasons, timer \in Timers :
          suspend_job_named(pattern, reason, timer)
    \/ \E pattern \in Patterns \cup {<<>>} : resume_job_named(pattern)
    \/ complete_current_job
    \/ \E timebox \in Timeboxes : apply_timebox(timebox)
    \/ \E new_state \in {Off, Working} : set_work_state(new_state)
    \/ tick
    \/ \E d \in ClockSteps : advance(d, MaxAdvance)

Spec == Init /\ [][Next]_vars

----------------------------------------------------------------------------
(* The tick alone, from the boards a few commands at instant 0 leave behind:   *)
(* up to two active jobs and up to two suspended one-job stacks, sorted as     *)
(* add_suspended_stack sorted them, nothing notified yet.                      *)

StartJobs == { Job(<<"r">>, 0, timebox) : timebox \in Timeboxes }

StartStacks ==
    { SuspendedStack(<<Job(<<"e", "r">>, 0, None)>>, "None", timer, 0) :
        timer \in { None } \cup { Some(d) : d \in TimerDelays } }

SeqsUpTo2(S) == { <<>> } \cup { <<x>> : x \in S } \cup { <<x, y>> : x, y \in S }

StartBoards ==
    { Board(a, StableSort(s, 0), w) :
        a \in SeqsUpTo2(StartJobs), s \in SeqsUpTo2(StartStacks), w \in { Off, Working } }

InitTick ==
    /\ now = 0
    /\ \E b \in StartBoards :
          /\ active_stack = b.active_stack
          /\ suspended_stacks = b.suspended_stacks
          /\ work_state = b.work_state
    /\ op = NoOp
    /\ prev_op = NoOp
    /\ pre = Board(<<>>, <<>>, Off)
    /\ pre_prev = Board(<<>>, <<>>, Off)
    /\ idle_alarms = <<>>
    /\ nops = 0
    /\ nadv = 0
    /\ lock = Absent
    /\ notifiers = [n \in NotifierIds |-> Unborn]
    /\ spawning = None
    /\ last_write = CommandWrite
    /\ disk = NoFiles

NextTick ==
    \/ nops < MaxTickOps /\ tick
    \/ \E d \in ClockSteps : advance(d, MaxTickAdvance)

SpecTick == InitTick /\ [][NextTick]_vars

----------------------------------------------------------------------------
(* The remind command of main.rs: send_reminders(force), then save.  The      *)
(* notification sink is taken to work (Notification::show succeeds).           *)

should_notify_main(last_notified, t) ==
    IF IsSome(last_notified)
    THEN num_seconds(t - Unwrap(last_notified)) > MIN_NOTIFICATION_DELAY_SECONDS
    ELSE TRUE

\* a force flag that is not looked at
passes_cooldown_unforced(force, last_notified, t) == should_notify_main(last_notified, t)

\* !(!force && !should_notify(..)): the reminder is not skipped
passes_cooldown(force, last_notified, t) == force \/ should_notify_main(last_notified, t)

reminded_jobs(b, force, t) ==
    { i \in DOMAIN b.active_stack :
        /\ timebox_expired(b.active_stack[i], t)
        /\ passes_cooldown(force, b.active_stack[i].last_notification, t) }

reminded_stacks(b, force, t) ==
    { k \in DOMAIN b.suspended_stacks :
        /\ timer_exhausted(b.suspended_stacks[k], t)
        /\ passes_cooldown(force, b.suspended_stacks[k].last_notifiaction, t) }

\* WydApplication::send_reminders: every reminder that is not skipped is shown and stamped
send_reminders(b, force, t) ==
    LET jobs == reminded_jobs(b, force, t)
        stacks == reminded_stacks(b, force, t)
    IN  [board |->
            [b EXCEPT
               !.active_stack = [i \in DOMAIN @ |->
                   IF i \in jobs THEN [@[i] EXCEPT !.last_notification = Some(t)] ELSE @[i]],
               !.suspended_stacks = [k \in DOMAIN @ |->
                   IF k \in stacks THEN [@[k] EXCEPT !.last_notifiaction = Some(t)] ELSE @[k]]],
         fired |-> { <<"job", i - 1>> : i \in jobs } \cup { <<"stack", k - 1>> : k \in stacks }]

remind(force) ==
    /\ CanRun
    /\ LET r == send_reminders(LoadBoard, force, now)
       IN  Finish(r.board, OpRecord("remind", force, TRUE,
                                    TimerState(r.fired # {}, TRUE), r.fired))

InitRemind == InitTick /\ work_state = Off

NextRemind ==
    \/ nops < MaxTickOps /\ \E force \in BOOLEAN : remind(force)
    \/ \E d \in ClockSteps : advance(d, MaxTickAdvance)

SpecRemind == InitRemind /\ [][NextRemind]_vars

----------------------------------------------------------------------------
(* Notifier processes beside interactive commands, from the default board *)

NextNotifier ==
    \/ spawn_begin
    \/ spawn_finish
    \/ kill_notifier
    \/ \E n \in NotifierIds : notifier_poll(n)
    \/ \E n \in NotifierIds : notifier_load(n)
    \/ \E n \in NotifierIds : notifier_load_fails(n)
    \/ \E n \in NotifierIds : notifier_save(n)
    \/ \E n \in NotifierIds : notifier_save_fails(n)
    \/ \E n \in NotifierIds : notifier_alarm(n)
    \/ \E n \in NotifierIds : notifier_alarm_fails(n)
    \/ \E n \in NotifierIds : notifier_sleep(n)
    \/ nops < MaxNotifierOps /\ create_job(<<"r">>, None, None)
    \/ nops < MaxNotifierOps /\ set_work_state(Working)
    \/ advance(Seconds(SLACK_LIMIT_SECONDS + 1), MaxNotifierAdvance)

SpecNotifier == Init /\ [][NextNotifier]_vars

\* every process that can take a step eventually takes one
FairSpecNotifier ==
    /\ SpecNotifier
    /\ \A n \in NotifierIds : WF_vars(notifier_step(n))
    /\ WF_vars(spawn_finish)

----------------------------------------------------------------------------
(* The methods of JobBoard called in sequence on a board in memory, from the    *)
(* boards commands at instant 0 leave behind: up to two active jobs, up to two  *)
(* suspended stacks of one or two jobs, sorted as add_suspended_stack sorted    *)
(* them at instant 0.                                                           *)

BoardJobs == { Job(<<"r">>, 0, None), Job(<<"e", "r">>, 0, Some(Seconds(5 * 60))) }

BoardStackData ==
    { <<Job(<<"r">>, 0, None)>>,
      <<Job(<<"e", "r">>, 0, Some(Seconds(5 * 60)))>>,
      <<Job(<<"r">>, 0, None), Job(<<"e", "r">>, 0, Some(Seconds(5 * 60)))>> }

BoardStacks ==
    { SuspendedStack(data, reason, timer, 0) :
        data \in BoardStackData, reason \in Reasons,
        timer \in { None } \cup { Some(d) : d \in TimerDelays } }

BoardInputs ==
    { Board(a, StableSort(s, 0), Off) :
        a \in SeqsUpTo2(BoardJobs), s \in SeqsUpTo2(BoardStacks) }

BoardClockSteps == { Seconds(30), Seconds(5 * 60) }

InitBoard ==
    /\ now = 0
    /\ \E b \in BoardInputs :
          /\ active_stack = b.active_stack
          /\ suspended_stacks = b.suspended_stacks
          /\ work_state = b.work_state
    /\ op = NoOp
    /\ prev_op = NoOp
    /\ pre = Board(<<>>, <<>>, Off)
    /\ pre_prev = Board(<<>>, <<>>, Off)
    /\ idle_alarms = <<>>
    /\ nops = 0
    /\ nadv = 0
    /\ lock = Absent
    /\ notifiers = [n \in NotifierIds |-> Unborn]
    /\ spawning = None
    /\ last_write = CommandWrite
    /\ disk = NoFiles

\* the call returns with the board b in memory
Return(b, record) ==
    /\ nops < MaxBoardOps
    /\ active_stack' = b.active_stack
    /\ suspended_stacks' = b.suspended_stacks
    /\ work_state' = b.work_state
    /\ op' = record
    /\ prev_op' = op
    /\ pre' = CurrentBoard
    /\ pre_prev' = pre
    /\ nops' = nops + 1
    /\ UNCHANGED <<now, nadv, idle_alarms, lock, notifiers, spawning, last_write, disk>>

CallRecord(name, arg, ok, ret) ==
    [OpRecord(name, arg, ok, NoTimerState, {}) EXCEPT !.ret = ret]

call_suspend_at(index, reason, timer) ==
    LET r == suspend_at(CurrentBoard, index, reason, timer, now)
    IN  Return(r.board, CallRecord("suspend_at", <<index, reason, timer>>, r.ok,
                                   IF r.panic THEN <<"panic">> ELSE None))

call_suspend_matching(pattern, reason, timer) ==
    LET r == suspend_matching(CurrentBoard, substring_matcher(pattern), reason, timer, now)
    IN  Return(r.board, CallRecord("suspend_matching", <<pattern, reason, timer>>, r.ok, None))

call_resume_at_index(index) ==
    LET r == resume_at_index(CurrentBoard, index, now)
    IN  Return(r.board, CallRecord("resume_at_index", <<index>>, r.ok, None))

call_resume_matching(pattern) ==
    LET r == resume_matching(CurrentBoard, substring_matcher(pattern), now)
    IN  Return(r.board, CallRecord("resume_matching", <<pattern>>, r.ok, None))

call_push(label, timebox) ==
    LET job == Job(label, now, timebox)
    IN  Return(push(CurrentBoard, job), CallRecord("push", <<job>>, TRUE, None))

call_pop ==
    Return(pop(CurrentBoard), CallRecord("pop", None, TRUE, popped(CurrentBoard)))

call_empty_stack_message ==
    Return(CurrentBoard,
           CallRecord("empty_stack_message", None, TRUE, empty_stack_message(CurrentBoard, now)))

NextBoard ==
    \/ \E index \in 0..MaxBoardIndex, reason \in Reasons, timer \in Timers :
          call_suspend_at(index, reason, timer)
    \/ \E pattern \in Patterns, reason \in Reasons, timer \in Timers :
          call_suspend_matching(pattern, reason, timer)
    \/ \E index \in 0..MaxBoardIndex : call_resume_at_index(index)
    \/ \E pattern \in Patterns : call_resume_matching(pattern)
    \/ \E label \in Labels, timebox \in Timeboxes : call_push(label, timebox)
    \/ call_pop
    \/ call_empty_stack_message
    \/ \E d \in BoardClockSteps : advance(d, MaxBoardAdvance)

SpecBoard == InitBoard /\ [][NextBoard]_vars

----------------------------------------------------------------------------
(* sort_suspended_stacks called on lists of timed and untimed stacks in any   *)
(* order, as a file or an earlier instant may hold them                       *)

SortStacks ==
    { SuspendedStack(<<Job(label, 0, None)>>, reason, timer, 0) :
        label \in Labels, reason \in Reasons,
        timer \in { None } \cup { Some(d) : d \in TimerDelays } }

SortInputs ==
    SeqsUpTo2(SortStacks) \cup { <<x, y, z>> : x, y, z \in SortStacks }

InitSort ==
    /\ now = 0
    /\ active_stack = <<>>
    /\ suspended_stacks \in SortInputs
    /\ work_state = Off
    /\ op = NoOp
    /\ prev_op = NoOp
    /\ pre = DefaultBoard
    /\ pre_prev = DefaultBoard
    /\ idle_alarms = <<>>
    /\ nops = 0
    /\ nadv = 0
    /\ lock = Absent
    /\ notifiers = [n \in NotifierIds |-> Unborn]
    /\ spawning = None
    /\ last_write = CommandWrite
    /\ disk = NoFiles

call_sort_suspended_stacks ==
    Return(sort_suspended_stacks(CurrentBoard, now),
           CallRecord("sort_suspended_stacks", None, TRUE, None))

NextSort ==
    \/ call_sort_suspended_stacks
    \/ \E d \in BoardClockSteps : advance(d, MaxBoardAdvance)

SpecSort == InitSort /\ [][NextSort]_vars

----------------------------------------------------------------------------
(* The notifier left alone with the board: no command runs, the loop goes    *)
(* round for ever.  An iteration takes its sleep of one second, the five       *)
(* seconds play_alarm sleeps when it alarmed, and AlarmLag clock units for the *)
(* rest of its work.                                                           *)
(* So that the loop can go round for ever in finitely many states, the clock   *)
(* is kept within its current second and the instants of the board are kept    *)
(* relative to the start of that second; instants further back than Horizon    *)
(* are kept at Horizon, behind which no comparison of the tick changes.        *)

Horizon == Seconds(SLACK_LIMIT_SECONDS + 1)

Rebase(t, shift) == IF t - shift < -Horizon THEN -Horizon ELSE t - shift

RebaseOption(o, shift) == IF IsSome(o) THEN Some(Rebase(Unwrap(o), shift)) ELSE None

RebaseJob(job, shift) ==
    [job EXCEPT !.begin_date = Rebase(@, shift),
                !.last_notification = RebaseOption(@, shift)]

RebaseStack(stack, shift) ==
    [stack EXCEPT !.data = [i \in DOMAIN @ |-> RebaseJob(@[i], shift)],
                  !.date_suspended = Rebase(@, shift),
                  !.timer = RebaseOption(@, shift),
                  !.last_notifiaction = RebaseOption(@, shift)]

RebaseBoard(b, shift) ==
    Board([i \in DOMAIN b.active_stack |-> RebaseJob(b.active_stack[i], shift)],
          [k \in DOMAIN b.suspended_stacks |-> RebaseStack(b.suspended_stacks[k], shift)],
          IF b.work_state \in { Off, Working } THEN b.work_state
          ELSE SlackingSince(Rebase(b.work_state[2], shift)))

\* jobs whose timebox ran out long ago, or without timebox
AlarmJobs == { Job(<<"r">>, -Horizon, timebox) : timebox \in Timeboxes }

\* one-job stacks whose timer passed a second ago or long ago
AlarmStacks ==
    { SuspendedStack(<<Job(<<"e", "r">>, -Horizon, None)>>, "None", Some(timer), -Horizon) :
        timer \in { -Seconds(SLEEP_SECONDS), -Horizon } }

RECURSIVE SeqsUpTo(_, _)
SeqsUpTo(S, n) ==
    IF n = 0 THEN { <<>> }
    ELSE SeqsUpTo(S, n - 1) \cup
         { Append(q, x) : q \in { q \in SeqsUpTo(S, n - 1) : Len(q) = n - 1 }, x \in S }

InitAlarm ==
    /\ now = 0
    /\ active_stack \in SeqsUpTo(AlarmJobs, MaxAlarmJobs)
    /\ \E n \in 0..MaxAlarmStacks, stack \in AlarmStacks :
          suspended_stacks = [k \in 1..n |-> stack]
    /\ work_state = Off
    /\ op = NoOp
    /\ prev_op = NoOp
    /\ pre = DefaultBoard
    /\ pre_prev = DefaultBoard
    /\ idle_alarms = <<>>
    /\ nops = 0
    /\ nadv = 0
    /\ lock = Absent
    /\ notifiers = [n \in NotifierIds |-> Unborn]
    /\ spawning = None
    /\ last_write = CommandWrite
    /\ disk = NoFiles

\* one round of the loop of become_notifier with its own lock content: load,
\* update_timers, save when needs_save, play_alarm when send_alarm, sleep
notifier_iteration ==
    LET b == LoadBoard
        r == update_timers(b, now)
        took == (IF r.ts.send_alarm THEN Seconds(ALARM_SECONDS) ELSE 0)
                + Seconds(SLEEP_SECONDS) + AlarmLag
        later == now + took
        shift == ts_seconds(later)
        left == RebaseBoard(IF r.ts.needs_save THEN r.board ELSE CurrentBoard, shift)
    IN  /\ now' = later - shift
        /\ active_stack' = left.active_stack
        /\ suspended_stacks' = left.suspended_stacks
        /\ work_state' = left.work_state
        /\ op' = OpRecord("tick", None, TRUE, r.ts, r.fired)
        /\ pre' = b
        /\ UNCHANGED <<prev_op, pre_prev, idle_alarms, nops, nadv, lock, notifiers, spawning,
                       last_write, disk>>

NextAlarm == notifier_iteration

SpecAlarm == InitAlarm /\ [][NextAlarm]_vars

\* the loop keeps going round
FairSpecAlarm == SpecAlarm /\ WF_vars(NextAlarm)

----------------------------------------------------------------------------
(* Timeboxes over time: ticks, the commands that rewrite begin_date, and the   *)
(* clock, from the boards of the tick specification.                            *)

NextTimebox ==
    \/ nops < MaxTimeboxOps /\ tick
    \/ nops < MaxTimeboxOps /\ \E timebox \in Timeboxes : apply_timebox(timebox)
    \/ nops < MaxTimeboxOps /\ resume_job_named(<<>>)
    \/ nops < MaxTimeboxOps /\ \E reason \in Reasons : suspend_job_named(<<"r">>, reason, None)
    \/ \E d \in ClockSteps : advance(d, MaxTimeboxAdvance)

SpecTimebox == InitTick /\ [][NextTimebox]_vars

----------------------------------------------------------------------------
(* Commands with the files they touch: jobs.ron, which may be missing, empty  *)
(* or malformed when the first command runs, and the backup of the day.  The    *)
(* clock stays within one day, so that there is one backup file.                *)

DiskClockSteps == { 1, TicksPerSec }

InitDisk ==
    /\ now = 0
    /\ active_stack = <<>>
    /\ suspended_stacks = <<>>
    /\ work_state = Off
    /\ op = NoOp
    /\ prev_op = NoOp
    /\ pre = DefaultBoard
    /\ pre_prev = DefaultBoard
    /\ idle_alarms = <<>>
    /\ nops = 0
    /\ nadv = 0
    /\ lock = Absent
    /\ notifiers = [n \in NotifierIds |-> Unborn]
    /\ spawning = None
    /\ last_write = CommandWrite
    /\ \E jobs \in { Missing, EmptyFile, Malformed } : disk = Files(jobs, Missing)

\* the invocation ends with the board b in memory and the files d
FinishOnDisk(b, d, loaded, record) ==
    /\ nops < MaxDiskOps
    /\ active_stack' = b.active_stack
    /\ suspended_stacks' = b.suspended_stacks
    /\ work_state' = b.work_state
    /\ disk' = d
    /\ op' = record
    /\ pre' = loaded
    /\ nops' = nops + 1
    /\ UNCHANGED <<now, nadv, prev_op, pre_prev, idle_alarms, lock, notifiers, spawning,
                   last_write>>

\* the record of an invocation: its input, what happened to the files, and
\* the files it found
DiskRecord(name, input, env, ok, ret) == CallRecord(name, <<input, env, disk>>, ok, <<ret>>)

\* WydApplication::load, the command (which prints before it saves), save
RunOnDisk(name, input, changed, prints, env) ==
    LET l == load(disk)
        s == save(changed, l.disk, env)
    IN  IF ~l.ok
        THEN FinishOnDisk(DefaultBoard, l.disk, DefaultBoard,
                          DiskRecord(name, input, env, FALSE, "load panicked"))
        ELSE IF ~prints
        THEN FinishOnDisk(changed, l.disk, l.board,
                          DiskRecord(name, input, env, TRUE, "nothing saved"))
        ELSE IF ~env.print
        THEN FinishOnDisk(changed, l.disk, l.board,
                          DiskRecord(name, input, env, FALSE, "print panicked"))
        ELSE FinishOnDisk(changed, s.disk, l.board,
                          DiskRecord(name, input, env, s.ok,
                                     IF s.panic THEN "save panicked"
                                     ELSE IF s.ok THEN "saved" ELSE "save failed"))

create_job_on_disk(label, timebox, env) ==
    LET b == load(disk).board
        refused == /\ Len(b.active_stack) > 0
                   /\ IsSome(b.active_stack[Len(b.active_stack)].timebox)
    IN  /\ NumJobs(b) < MaxJobs
        /\ RunOnDisk("create_job", <<label, timebox>>,
                     IF refused THEN b ELSE push(b, Job(label, now, timebox)),
                     ~refused, env)

complete_current_job_on_disk(env) ==
    LET b == load(disk).board
    IN  RunOnDisk("complete_current_job", None, pop(b), Len(b.active_stack) > 0, env)

NextDisk ==
    \/ \E label \in Labels, timebox \in Timeboxes, env \in Envs :
          create_job_on_disk(label, timebox, env)
    \/ \E env \in Envs : complete_current_job_on_disk(env)
    \/ \E d \in DiskClockSteps : advance(d, MaxDiskAdvance)

SpecDisk == InitDisk /\ [][NextDisk]_vars

----------------------------------------------------------------------------
(* What the claims speak of, stated on the fields *)

Expired(job, t) == IsSome(job.timebox) /\ t >= job.begin_date + Unwrap(job.timebox)

Due(last, t) == last = None \/ t - Unwrap(last) > Seconds(COOLDOWN_SECONDS)

InCooldown(last, t) == IsSome(last) /\ t - Unwrap(last) <= Seconds(COOLDOWN_SECONDS)

MinOf(S) == CHOOSE x \in S : \A y \in S : x <= y

\* positions (from 1) of the active jobs a tick at t may alarm for
DueJobs(b, t) ==
    { i \in DOMAIN b.active_stack :
        Expired(b.active_stack[i], t) /\ Due(b.active_stack[i].last_notification, t) }

\* positions of the suspended stacks whose timer lies before t / at or before t
DueStacks(b, t) ==
    { k \in DOMAIN b.suspended_stacks :
        /\ IsSome(b.suspended_stacks[k].timer)
        /\ Unwrap(b.suspended_stacks[k].timer) < t
        /\ Due(b.suspended_stacks[k].last_notifiaction, t) }

DueStacksInclusive(b, t) ==
    { k \in DOMAIN b.suspended_stacks :
        /\ IsSome(b.suspended_stacks[k].timer)
        /\ Unwrap(b.suspended_stacks[k].timer) <= t
        /\ Due(b.suspended_stacks[k].last_notifiaction, t) }

Ticked == op.name = "tick"

\* the tick stamped the job at position i and nothing else
StampedJobOnly(i) ==
    /\ active_stack = [pre.active_stack EXCEPT ![i].last_notification = Some(op.at)]
    /\ suspended_stacks = pre.suspended_stacks
    /\ work_state = pre.work_state

\* the tick stamped the stack at position k and nothing else
StampedStackOnly(k) ==
    /\ suspended_stacks = [pre.suspended_stacks EXCEPT ![k].last_notifiaction = Some(op.at)]
    /\ active_stack = pre.active_stack
    /\ work_state = pre.work_state

----------------------------------------------------------------------------
\* C1: when some active job is expired and due, the tick stamps last_notification = now
\* on the lowest-index such job and on no other, and returns {send_alarm: true,
\* needs_save: true}.
C1_ActiveJobStep ==
    (Ticked /\ DueJobs(pre, op.at) # {}) =>
        /\ op.ts = TimerState(TRUE, TRUE)
        /\ op.fired = {<<"job", MinOf(DueJobs(pre, op.at)) - 1>>}
        /\ StampedJobOnly(MinOf(DueJobs(pre, op.at)))

\* a tick that had two due jobs to choose from
C1_Witness ==
    /\ Ticked
    /\ Cardinality(DueJobs(pre, op.at)) >= 2
    /\ op.ts.send_alarm

\* the board of the scenario: a job without timebox, above it a job with a 5 minute
\* timebox, nothing suspended, work_state Off
ScenarioBoard(b) ==
    /\ Len(b.active_stack) = 2
    /\ b.active_stack[1].timebox = None
    /\ b.active_stack[2].timebox = Some(Seconds(5 * 60))
    /\ b.suspended_stacks = <<>>
    /\ b.work_state = Off

\* the tick came right after a tick that alarmed, within the cooldown of that alarm
Retick ==
    /\ Ticked
    /\ prev_op.name = "tick"
    /\ prev_op.ts.send_alarm
    /\ op.at - prev_op.at <= Seconds(COOLDOWN_SECONDS)

\* C2: a tick that follows an alarming tick within the cooldown raises no second alarm
\* for the same job; in the scenario the first tick after the timebox elapsed returns
\* send_alarm = true and the immediate re-tick send_alarm = false.
C2_Dedup ==
    /\ Retick => \A i \in DOMAIN pre.active_stack :
           <<"job", i - 1>> \in prev_op.fired =>
               /\ <<"job", i - 1>> \notin op.fired
               /\ active_stack[i].last_notification = Some(prev_op.at)
    /\ (Ticked /\ ScenarioBoard(pre) /\ Expired(pre.active_stack[2], op.at)
          /\ pre.active_stack[2].last_notification = None) => op.ts.send_alarm
    /\ (Retick /\ ScenarioBoard(pre)) => ~op.ts.send_alarm

\* the scenario's re-tick
C2_Witness ==
    /\ Retick
    /\ ScenarioBoard(pre)
    /\ prev_op.fired = {<<"job", 1>>}
    /\ ~op.ts.send_alarm

\* C4 as stated: with no active job due, the tick stamps the first stack whose timer is
\* set and <= now (timer = now included) and that is due, and returns {true, true}.
C4_Original ==
    (Ticked /\ DueJobs(pre, op.at) = {} /\ DueStacksInclusive(pre, op.at) # {}) =>
        /\ op.ts = TimerState(TRUE, TRUE)
        /\ StampedStackOnly(MinOf(DueStacksInclusive(pre, op.at)))

\* C4 amended: with no active job due, the tick stamps the first stack, in the current
\* order, whose timer is set and strictly before now and that is due, and returns
\* {true, true}; a stack with no timer, or with a timer at or after now, is never stamped.
C4_SuspendedStep ==
    (Ticked /\ DueJobs(pre, op.at) = {}) =>
        /\ DueStacks(pre, op.at) # {} =>
              /\ op.ts = TimerState(TRUE, TRUE)
              /\ op.fired = {<<"stack", MinOf(DueStacks(pre, op.at)) - 1>>}
              /\ StampedStackOnly(MinOf(DueStacks(pre, op.at)))
        /\ DueStacks(pre, op.at) = {} =>
              /\ suspended_stacks = pre.suspended_stacks
              /\ \A k \in DOMAIN pre.suspended_stacks : <<"stack", k - 1>> \notin op.fired

\* a tick that passed over a first stack (untimed, or not yet past) and stamped the second
C4_Witness ==
    /\ Ticked
    /\ op.fired = {<<"stack", 1>>}
    /\ \E k \in DOMAIN pre.suspended_stacks : pre.suspended_stacks[k].timer = None

\* the idle step's case: nothing fired for a job or a stack, SlackingSince, no timebox
IdleCase ==
    /\ Ticked
    /\ DueJobs(pre, op.at) = {}
    /\ DueStacks(pre, op.at) = {}
    /\ pre.work_state[1] = "SlackingSince"
    /\ \A i \in DOMAIN pre.active_stack : pre.active_stack[i].timebox = None

\* C5 as stated: in the idle case, now - d > 5 minutes gives {true, true} and
\* SlackingSince(now); now - d <= 5 minutes gives no alarm and SlackingSince(d).
C5_Original ==
    IdleCase =>
        IF op.at - pre.work_state[2] > Seconds(5 * 60)
        THEN op.ts = TimerState(TRUE, TRUE) /\ work_state = SlackingSince(op.at)
        ELSE ~op.ts.send_alarm /\ work_state = pre.work_state

\* C5 amended: the threshold is on whole seconds: the alarm is raised when
\* now - d >= 5 minutes + 1 second, and not before; idle alarms of successive ticks
\* are more than 5 minutes apart.
C5_IdleEscalation ==
    /\ IdleCase =>
        IF op.at - pre.work_state[2] >= Seconds(5 * 60 + 1)
        THEN /\ op.ts = TimerState(TRUE, TRUE)
             /\ op.fired = {<<"idle">>}
             /\ work_state = SlackingSince(op.at)
        ELSE /\ ~op.ts.send_alarm
             /\ work_state = pre.work_state
    /\ \A i \in 1..(Len(idle_alarms) - 1) :
           idle_alarms[i + 1] - idle_alarms[i] > Seconds(5 * 60)

\* two idle alarms were raised
C5_Witness ==
    /\ IdleCase
    /\ Len(idle_alarms) = 2
    /\ op.fired = {<<"idle">>}

\* C3: remind --force raises an alarm for every active job whose timebox is expired and
\* every suspended stack whose timer has passed, also inside the cooldown window.
C3_ForceBypassesCooldown ==
    (op.name = "remind" /\ op.arg = TRUE) =>
        /\ \A i \in DOMAIN pre.active_stack :
              Expired(pre.active_stack[i], op.at) =>
                  /\ <<"job", i - 1>> \in op.fired
                  /\ active_stack[i].last_notification = Some(op.at)
        /\ \A k \in DOMAIN pre.suspended_stacks :
              (/\ IsSome(pre.suspended_stacks[k].timer)
               /\ Unwrap(pre.suspended_stacks[k].timer) < op.at) =>
                  /\ <<"stack", k - 1>> \in op.fired
                  /\ suspended_stacks[k].last_notifiaction = Some(op.at)
        /\ op.ts.send_alarm = (op.fired # {})

\* a forced reminder for a job and a stack that were both notified within the last
\* 30 seconds
C3_Witness ==
    /\ op.name = "remind"
    /\ op.arg = TRUE
    /\ \E i \in DOMAIN pre.active_stack :
          /\ InCooldown(pre.active_stack[i].last_notification, op.at)
          /\ <<"job", i - 1>> \in op.fired
    /\ \E k \in DOMAIN pre.suspended_stacks :
          /\ InCooldown(pre.suspended_stacks[k].last_notifiaction, op.at)
          /\ <<"stack", k - 1>> \in op.fired

\* a stack's timer, or t for a stack without one
TimerOr(stack, t) == IF stack.timer = None THEN t ELSE Unwrap(stack.timer)

SortedAt(stacks, t) ==
    \A i, j \in DOMAIN stacks : i < j => TimerOr(stacks[i], t) <= TimerOr(stacks[j], t)

TimedSorted(stacks) ==
    \A i, j \in DOMAIN stacks :
        (i < j /\ IsSome(stacks[i].timer) /\ IsSome(stacks[j].timer)) =>
            Unwrap(stacks[i].timer) <= Unwrap(stacks[j].timer)

Inserted ==
    \/ op.name = "create_suspended_job"
    \/ op.name = "suspend_job_named" /\ op.ok

\* C10 as stated: in every reachable state suspended_stacks is ascending by effective
\* timer, an untimed stack counting as the current time of that state.
C10_Original == SortedAt(suspended_stacks, now)

\* C10 amended: suspended_stacks is ascending by effective timer, an untimed stack
\* counting as the instant of the insertion, in the state an insertion (suspend,
\* create_suspended_job) leaves and until the next command; in every reachable state
\* the timed stacks are in ascending timer order among themselves.
C10_SortedAfterInsertion ==
    /\ Inserted => SortedAt(suspended_stacks, op.at)
    /\ TimedSorted(suspended_stacks)

\* an insertion left an untimed stack before a timed one, and the timer has passed since
C10_Witness ==
    /\ Inserted
    /\ Len(suspended_stacks) >= 2
    /\ suspended_stacks[1].timer = None
    /\ IsSome(suspended_stacks[2].timer)
    /\ now > Unwrap(suspended_stacks[2].timer)

\* C6: a notifier that reads another spawn's token in the lock file leaves its loop at
\* that read, and once spawns have stopped there is eventually at most one notifier
\* still running, the one whose token the lock file holds.
C6_Supersession ==
    /\ [](\A n \in NotifierIds :
            (notifiers[n].read.len = 16 /\ notifiers[n].read # Uuid(n)) =>
                notifiers[n].pc = "exited")
    /\ <>[](/\ Cardinality(Running) <= 1
            /\ \A n \in Running : lock = Uuid(n))

\* an older notifier has left on reading the token of a newer one that is running
C6_Witness ==
    \E n, m \in NotifierIds :
        /\ n < m
        /\ notifiers[n].pc = "exited"
        /\ notifiers[n].reason = "lock"
        /\ notifiers[n].read = Uuid(m)
        /\ m \in Running

\* C7: the kill sentinel equals no token; a notifier that reads it leaves its loop at
\* that read; once the lock file holds the sentinel, either a spawn replaces it or
\* eventually no notifier is running.
C7_Kill ==
    /\ [](/\ \A n \in NotifierIds : KillSentinel # Uuid(n)
          /\ \A n \in NotifierIds :
                notifiers[n].read = KillSentinel => notifiers[n].pc = "exited")
    /\ (lock = KillSentinel) ~> (lock # KillSentinel \/ Running = {})

\* two notifiers were running, both read the sentinel and left
C7_Witness ==
    /\ lock = KillSentinel
    /\ Running = {}
    /\ \A n \in NotifierIds :
          /\ notifiers[n].pc = "exited"
          /\ notifiers[n].read = KillSentinel

\* C8 as stated: the loop ends only on foreign lock-file content or on a failed load;
\* a failed save or a failed alarm does not end it.
C8_LoopEndsOnlyOnLockOrLoad ==
    \A n \in NotifierIds :
        notifiers[n].pc = "exited" => notifiers[n].reason \in {"lock", "load"}

\* the jobs of a stack without their reminder stamps
Identities(stack) ==
    [i \in 1..Len(stack) |-> <<stack[i].label, stack[i].begin_date, stack[i].timebox>>]

\* C9: when a notifier saves a board it loaded before a command ran, jobs.ron holds the
\* notifier's copy: job for job the active stack it loaded before the command, and as
\* many suspended stacks, so what the command changed in between is not in it.
C9_LastSaveWins ==
    (last_write.by \in NotifierIds /\ last_write.stale) =>
        /\ CurrentBoard = last_write.copy
        /\ Identities(active_stack) = Identities(last_write.loaded.active_stack)
        /\ Len(suspended_stacks) = Len(last_write.loaded.suspended_stacks)

\* a notifier's save replaced a board that held a job its own copy lacks
C9_Witness ==
    /\ last_write.by \in NotifierIds
    /\ last_write.stale
    /\ op.name = "create_job"
    /\ op.ok
    /\ Len(last_write.replaced.active_stack) = Len(pre.active_stack) + 1
    /\ Len(active_stack) < Len(last_write.replaced.active_stack)

----------------------------------------------------------------------------
(* JobBoard calls in sequence *)

LabelsAndTimeboxes(stack) ==
    [i \in DOMAIN stack |-> <<stack[i].label, stack[i].timebox>>]

\* the stack a successful suspend_at (the last call but one) built
SuspendedByPrev ==
    SuspendedStack(Suffix(pre_prev.active_stack, prev_op.arg[1]), prev_op.arg[2],
                   prev_op.arg[3], prev_op.at)

\* the index the suspend's stable sort left that stack at: behind every older stack
\* that does not compare greater
SuspendedByPrevIndex ==
    Cardinality({ k \in DOMAIN pre_prev.suspended_stacks :
        EffectiveTimer(pre_prev.suspended_stacks[k], prev_op.at)
            <= EffectiveTimer(SuspendedByPrev, prev_op.at) })

\* suspend_at succeeded and the next call resumed the stack it had built
RoundTrip ==
    /\ prev_op.name = "suspend_at"
    /\ prev_op.ok
    /\ op.name = "resume_at_index"
    /\ op.ok
    /\ op.arg[1] = SuspendedByPrevIndex
    /\ pre.suspended_stacks[op.arg[1] + 1] = SuspendedByPrev

RoundTripJobs ==
    /\ LabelsAndTimeboxes(active_stack) = LabelsAndTimeboxes(pre_prev.active_stack)
    /\ \A i \in DOMAIN active_stack :
          IF i <= prev_op.arg[1]
          THEN active_stack[i] = pre_prev.active_stack[i]
          ELSE /\ active_stack[i].begin_date >= op.at
               /\ active_stack[i].last_notification =
                     pre_prev.active_stack[i].last_notification

\* C11 as stated: after the round trip the active stack holds the same jobs in the same
\* order, the resumed ones with begin_date at or after the resume, and suspended_stacks
\* is as before the suspend.
C11_Original ==
    RoundTrip =>
        /\ RoundTripJobs
        /\ suspended_stacks = pre_prev.suspended_stacks

\* C11: after the round trip the active stack holds the same jobs in the same order,
\* the resumed ones with begin_date at or after the resume, and suspended_stacks holds
\* the stacks it held before the suspend, in the order the suspend's sort gave them.
C11_RoundTrip ==
    RoundTrip =>
        /\ RoundTripJobs
        /\ suspended_stacks = StableSort(pre_prev.suspended_stacks, prev_op.at)

\* two jobs suspended and resumed at a later instant, beside two older stacks that the
\* suspend's sort put in another order
C11_Witness ==
    /\ RoundTrip
    /\ Len(active_stack) - prev_op.arg[1] = 2
    /\ Len(pre_prev.suspended_stacks) = 2
    /\ suspended_stacks # pre_prev.suspended_stacks
    /\ op.at > 0

Count(seq, x) == Cardinality({ i \in DOMAIN seq : seq[i] = x })

\* the two lists hold the same stacks, each as often, in any order
SameStacks(s1, s2) ==
    \A x \in { s1[i] : i \in DOMAIN s1 } \cup { s2[i] : i \in DOMAIN s2 } :
        Count(s1, x) = Count(s2, x)

Without(seq, k) == SubSeq(seq, 1, k - 1) \o SubSeq(seq, k + 1, Len(seq))

\* C12: suspend_at with index < len(active_stack) succeeds, leaves active_stack its
\* former prefix [0..index), and adds exactly one SuspendedStack holding the former
\* [index..end] in order, with the given reason and timer and no last notification;
\* the stacks suspended before are all still there, unmodified.
C12_SuspendAt ==
    (op.name = "suspend_at" /\ op.arg[1] < Len(pre.active_stack)) =>
        /\ op.ok
        /\ active_stack = SubSeq(pre.active_stack, 1, op.arg[1])
        /\ Len(suspended_stacks) = Len(pre.suspended_stacks) + 1
        /\ \E k \in DOMAIN suspended_stacks :
              /\ suspended_stacks[k].data = Suffix(pre.active_stack, op.arg[1])
              /\ suspended_stacks[k].reason = op.arg[2]
              /\ suspended_stacks[k].timer = op.arg[3]
              /\ suspended_stacks[k].last_notifiaction = None
              /\ SameStacks(Without(suspended_stacks, k), pre.suspended_stacks)

\* the upper of two jobs suspended with a timer, beside two older stacks
C12_Witness ==
    /\ op.name = "suspend_at"
    /\ op.ok
    /\ op.arg[1] = 1
    /\ IsSome(op.arg[3])
    /\ Len(pre.active_stack) = 2
    /\ Len(active_stack) = 1
    /\ Len(suspended_stacks) = 3

\* positions (from 1) of the jobs of a stack whose label contains the pattern
Matching(stack, pattern) == { i \in DOMAIN stack : Contains(stack[i].label, pattern) }

\* C13: suspend_matching suspends from the lowest index whose label contains the
\* pattern, moving that job and every job above it into one SuspendedStack; when no
\* label matches it fails and leaves the board as it was.
C13_SuspendMatching ==
    op.name = "suspend_matching" =>
        LET matches == Matching(pre.active_stack, op.arg[1])
        IN  IF matches = {}
            THEN ~op.ok /\ CurrentBoard = pre
            ELSE /\ op.ok
                 /\ active_stack = SubSeq(pre.active_stack, 1, MinOf(matches) - 1)
                 /\ Len(suspended_stacks) = Len(pre.suspended_stacks) + 1
                 /\ \E k \in DOMAIN suspended_stacks :
                       /\ suspended_stacks[k].data =
                             Suffix(pre.active_stack, MinOf(matches) - 1)
                       /\ suspended_stacks[k].reason = op.arg[2]
                       /\ suspended_stacks[k].timer = op.arg[3]
                       /\ SameStacks(Without(suspended_stacks, k), pre.suspended_stacks)

\* both jobs match, the match at index 0 is taken and the active stack is left empty
C13_Witness ==
    /\ op.name = "suspend_matching"
    /\ op.ok
    /\ Matching(pre.active_stack, op.arg[1]) = {1, 2}
    /\ pre.active_stack[1] # pre.active_stack[2]
    /\ active_stack = <<>>

\* C14: suspend_at fails for every index >= len(active_stack), the empty active stack
\* included; it returns (it does not panic) and leaves the board as it was.
C14_SuspendAtOutOfRange ==
    (op.name = "suspend_at" /\ op.arg[1] >= Len(pre.active_stack)) =>
        /\ ~op.ok
        /\ op.ret # <<"panic">>
        /\ CurrentBoard = pre

\* index 0 on an empty active stack, and an index beyond the length of a non-empty one
C14_Witness ==
    /\ op.name = "suspend_at"
    /\ ~op.ok
    /\ \/ pre.active_stack = <<>> /\ op.arg[1] = 0
       \/ Len(pre.active_stack) = 1 /\ op.arg[1] = 2

\* the jobs of a resumed stack: in their stored order, begin_date set to t
Refreshed(data, t) == [i \in DOMAIN data |-> [data[i] EXCEPT !.begin_date = t]]

\* positions (from 1) of the stacks whose first job's label contains the pattern
MatchingStacks(stacks, pattern) ==
    { k \in DOMAIN stacks : Contains(stacks[k].data[1].label, pattern) }

\* C15: resume_matching resumes the first stack, in the current order of
\* suspended_stacks, whose first job's label contains the pattern (deeper labels do not
\* count); when no first label matches, and so whenever suspended_stacks is empty, it
\* fails and leaves the board as it was.
C15_ResumeMatching ==
    op.name = "resume_matching" =>
        LET matches == MatchingStacks(pre.suspended_stacks, op.arg[1])
        IN  IF matches = {}
            THEN ~op.ok /\ CurrentBoard = pre
            ELSE /\ op.ok
                 /\ suspended_stacks = Without(pre.suspended_stacks, MinOf(matches))
                 /\ active_stack = pre.active_stack \o
                       Refreshed(pre.suspended_stacks[MinOf(matches)].data, op.at)

\* the first stack matches only in its second job and is passed over for the second
C15_Witness ==
    /\ op.name = "resume_matching"
    /\ op.ok
    /\ Len(pre.suspended_stacks) = 2
    /\ Len(pre.suspended_stacks[1].data) = 2
    /\ ~Contains(pre.suspended_stacks[1].data[1].label, op.arg[1])
    /\ Contains(pre.suspended_stacks[1].data[2].label, op.arg[1])
    /\ suspended_stacks = <<pre.suspended_stacks[1]>>

\* C16: resume_at_index with a valid index removes exactly the stack at that index,
\* and appends its jobs, in their stored order and with begin_date = now, on top of
\* active_stack; the jobs already active and the other stacks stay as they were, in
\* the same order.  With index >= len(suspended_stacks) it fails and changes nothing.
C16_ResumeAtIndex ==
    op.name = "resume_at_index" =>
        IF op.arg[1] >= Len(pre.suspended_stacks)
        THEN ~op.ok /\ CurrentBoard = pre
        ELSE /\ op.ok
             /\ suspended_stacks = Without(pre.suspended_stacks, op.arg[1] + 1)
             /\ active_stack = pre.active_stack \o
                   Refreshed(pre.suspended_stacks[op.arg[1] + 1].data, op.at)

\* the second of two different stacks, holding two jobs, resumed at a later instant
\* onto a non-empty active stack
C16_Witness ==
    /\ op.name = "resume_at_index"
    /\ op.ok
    /\ op.arg[1] = 1
    /\ op.at > 0
    /\ Len(pre.suspended_stacks) = 2
    /\ pre.suspended_stacks[1] # pre.suspended_stacks[2]
    /\ Len(pre.suspended_stacks[2].data) = 2
    /\ Len(pre.active_stack) > 0

\* the stack a resume without a pattern takes (index 0) has no timer, or one that is
\* not after t
FirstReady(b, t) ==
    /\ Len(b.suspended_stacks) > 0
    /\ \/ b.suspended_stacks[1].timer = None
       \/ Unwrap(b.suspended_stacks[1].timer) <= t

\* C17 as stated: empty_stack_message returns the resume instruction followed by
\* suspended_stack_summary exactly when suspended_stacks is non-empty and its first
\* stack is ready (timer absent or <= now); otherwise the generic no-jobs message.
C17_EmptyStackMessage ==
    op.name = "empty_stack_message" =>
        IF FirstReady(pre, op.at)
        THEN op.ret = <<"You finished your jobs in progress", suspended_stack_summary(pre)>>
        ELSE op.ret = <<"No jobs in progress, and no suspended tasks">>

----------------------------------------------------------------------------
(* Timeboxes *)

\* every job of the board, active or suspended
JobsOf(b) ==
    { b.active_stack[i] : i \in DOMAIN b.active_stack } \cup
    UNION { { b.suspended_stacks[k].data[i] : i \in DOMAIN b.suspended_stacks[k].data } :
            k \in DOMAIN b.suspended_stacks }

\* C18: at every instant, timebox_expired is true of a job iff the job has a timebox
\* and now >= begin_date + timebox (true at the instant of equality); of a job without
\* a timebox it is false.
C18_TimeboxExpired ==
    \A job \in JobsOf(CurrentBoard) :
        /\ timebox_expired(job, now) <=>
              (IsSome(job.timebox) /\ now >= job.begin_date + Unwrap(job.timebox))
        /\ job.timebox = None => ~timebox_expired(job, now)

\* a tick at the very instant begin_date + timebox has alarmed for the job, beside a
\* job without a timebox
C18_Witness ==
    /\ op.name = "tick"
    /\ op.at = now
    /\ op.fired = {<<"job", 0>>}
    /\ now = active_stack[1].begin_date + Unwrap(active_stack[1].timebox)
    /\ Len(active_stack) = 2
    /\ active_stack[2].timebox = None

\* the step is an apply_timebox that found a job to rewrite
AppliesTimebox == nops' = nops + 1 /\ op'.name = "apply_timebox" /\ op'.ok

\* the job at position i of the active stack is there after the step too
Stays(i) ==
    /\ i \in DOMAIN active_stack
    /\ i \in DOMAIN active_stack'
    /\ active_stack'[i].label = active_stack[i].label

\* the step is a resume_job_named without a pattern that resumed the stack at index 0
ResumesFirst == nops' = nops + 1 /\ op'.name = "resume_job_named" /\ op'.ok

\* the jobs at position i stay expired over the step, if they keep a timebox
StaysExpired(i) ==
    (/\ Stays(i)
     /\ IsSome(active_stack'[i].timebox)
     /\ timebox_expired(active_stack[i], now)) =>
        timebox_expired(active_stack'[i], now')

\* C19 as stated: once timebox_expired is true of a job with a timebox, it is true at
\* every later instant for as long as the job is on the board.
C19_Original ==
    [][/\ \A i \in DOMAIN active_stack : StaysExpired(i)
       /\ ResumesFirst =>
             \A j \in DOMAIN suspended_stacks[1].data :
                 timebox_expired(suspended_stacks[1].data[j], now) =>
                     timebox_expired(active_stack'[Len(active_stack) + j], now')]_vars

\* C19: once timebox_expired is true of a job with a timebox, it stays true as time
\* passes, through ticks and through every command except an apply_timebox on that job
\* and a resume of its stack, which set its begin_date to now; a suspended job stays
\* expired while it is suspended.
C19_ExpiryMonotonic ==
    [][/\ \A i \in DOMAIN active_stack :
             ~(AppliesTimebox /\ i = Len(active_stack)) => StaysExpired(i)
       /\ Len(suspended_stacks') = Len(suspended_stacks) =>
             \A k \in DOMAIN suspended_stacks : \A j \in DOMAIN suspended_stacks[k].data :
                 timebox_expired(suspended_stacks[k].data[j], now) =>
                     /\ j \in DOMAIN suspended_stacks'[k].data
                     /\ timebox_expired(suspended_stacks'[k].data[j], now')]_vars

\* a job that a tick found expired is still expired at the later instant of a second
\* tick
C19_Witness ==
    /\ prev_op.name = "tick"
    /\ <<"job", 0>> \in prev_op.fired
    /\ op.name = "tick"
    /\ op.at > prev_op.at
    /\ Len(active_stack) > 0
    /\ timebox_expired(active_stack[1], op.at)
    /\ timebox_expired(active_stack[1], prev_op.at)

----------------------------------------------------------------------------
(* The active stack *)

\* C20: push puts the job on top and makes active_stack one longer; a pop of a
\* non-empty active_stack returns its top job and makes it one shorter; a pop of an
\* empty one returns None and changes nothing; a pop right after a push returns the
\* pushed job, every field as pushed, and leaves the board as it was before the push.
C20_Lifo ==
    /\ op.name = "push" =>
          /\ active_stack = Append(pre.active_stack, op.arg[1])
          /\ Len(active_stack) = Len(pre.active_stack) + 1
          /\ suspended_stacks = pre.suspended_stacks
    /\ op.name = "pop" =>
          IF pre.active_stack = <<>>
          THEN op.ret = None /\ CurrentBoard = pre
          ELSE /\ op.ret = Some(pre.active_stack[Len(pre.active_stack)])
               /\ Len(active_stack) = Len(pre.active_stack) - 1
               /\ active_stack = SubSeq(pre.active_stack, 1, Len(pre.active_stack) - 1)
               /\ suspended_stacks = pre.suspended_stacks
    /\ (op.name = "pop" /\ prev_op.name = "push") =>
          /\ op.ret = Some(prev_op.arg[1])
          /\ CurrentBoard = pre_prev

\* a job with a timebox pushed at a later instant onto two other jobs, then popped
C20_Witness ==
    /\ op.name = "pop"
    /\ prev_op.name = "push"
    /\ prev_op.at > 0
    /\ IsSome(prev_op.arg[1].timebox)
    /\ Len(pre_prev.active_stack) = 2
    /\ pre_prev.active_stack[1] # pre_prev.active_stack[2]
    /\ op.ret = Some(prev_op.arg[1])

----------------------------------------------------------------------------
(* Persistence *)

Saved == op.ret = <<"saved">>

\* C21: persistence round trip: loading the file a save wrote gives a board
\* equal in every field to the board that was saved
C21_RoundTrip ==
    Saved => /\ load(disk).ok
             /\ load(disk).board = CurrentBoard

\* the files the last invocation found
Found == op.arg[3]

Invoked == op.name \in { "create_job", "complete_current_job" }

\* C22: load outcomes: a missing and an empty jobs.ron both give the default
\* board (no active job, no suspended stack, work_state Off); a malformed
\* jobs.ron makes the load fail fatally, and the invocation leaves the file,
\* and the backup, as they were
C22_LoadOutcomes ==
    Invoked =>
        /\ Found.jobs \in { Missing, EmptyFile } =>
              /\ op.ret # <<"load panicked">>
              /\ pre.active_stack = <<>>
              /\ pre.suspended_stacks = <<>>
              /\ pre.work_state = Off
        /\ Found.jobs = Malformed =>
              /\ ~op.ok
              /\ op.ret = <<"load panicked">>
              /\ disk = Found
              /\ disk.jobs = Malformed
        /\ Found.jobs \notin { Missing, EmptyFile, Malformed } =>
              /\ op.ret # <<"load panicked">>
              /\ pre = from_str(Found.jobs)

\* an invocation found the malformed file that a failed write had left, beside
\* the backup of a board
C22_Witness ==
    /\ Invoked
    /\ Found.jobs = Malformed
    /\ Found.backup \notin { Missing, EmptyFile, Malformed }
    /\ op.ret = <<"load panicked">>
    /\ disk = Found


\* the last invocation reached its save
ReachedSave == Invoked /\ op.ret \in { <<"saved">>, <<"save failed">>, <<"save panicked">> }

\* C23: backup on save: a save copies jobs.ron as it is before the write to
\* the backup of the day, so that after the save the backup holds what was
\* persisted before it; when the copy fails, the save still writes the new
\* board and returns success
C23_BackupOnSave ==
    ReachedSave =>
        /\ op.arg[2].copy => disk.backup = load(Found).disk.jobs
        /\ (~op.arg[2].copy /\ op.arg[2].write = "ok") =>
              /\ op.ok
              /\ op.ret = <<"saved">>
              /\ disk.jobs = to_string_pretty(CurrentBoard)


----------------------------------------------------------------------------
(* The tick as a whole *)

\* C24: tick priority and single alarm: a tick changes at most one of one
\* active job's last_notification, one suspended stack's last_notification
\* and work_state; when a job fires no stack is stamped and work_state stays,
\* when a stack fires work_state stays, and the idle step runs only when
\* neither fired
C24_TickFrame ==
    Ticked =>
        /\ Cardinality(op.fired) <= 1
        /\ \/ CurrentBoard = pre /\ op.fired = {}
           \/ \E i \in DOMAIN pre.active_stack :
                 StampedJobOnly(i) /\ op.fired = { <<"job", i - 1>> }
           \/ \E k \in DOMAIN pre.suspended_stacks :
                 StampedStackOnly(k) /\ op.fired = { <<"stack", k - 1>> }
           \/ /\ active_stack = pre.active_stack
              /\ suspended_stacks = pre.suspended_stacks
              /\ work_state # pre.work_state
              /\ op.fired \subseteq { <<"idle">> }

\* a tick stamped a job while a suspended stack's timer had run out unnotified
\* and the board was in work mode with a job without timebox beside it
C24_Witness ==
    /\ Ticked
    /\ \E i \in DOMAIN pre.active_stack : op.fired = { <<"job", i - 1>> }
    /\ \E k \in DOMAIN pre.suspended_stacks :
          /\ timer_exhausted(pre.suspended_stacks[k], op.at)
          /\ pre.suspended_stacks[k].last_notifiaction = None
    /\ pre.work_state # Off
    /\ work_state = pre.work_state
    /\ suspended_stacks = pre.suspended_stacks


HoldsTimebox(b) == \E i \in DOMAIN b.active_stack : IsSome(b.active_stack[i].timebox)

NoStampFired == Ticked /\ op.fired \subseteq { <<"idle">> }

\* C25: work_state in a tick where no job and no stack fired: Off stays Off
\* with {false, false}; SlackingSince(d) with a timeboxed active job becomes
\* Working without alarm; Working with no timeboxed active job becomes
\* SlackingSince(now) with needs_save and no alarm; Working with a timeboxed
\* active job stays Working with {false, false}
C25_WorkStateTransitions ==
    NoStampFired =>
        /\ active_stack = pre.active_stack
        /\ suspended_stacks = pre.suspended_stacks
        /\ pre.work_state = Off =>
              work_state = Off /\ op.ts = TimerState(FALSE, FALSE)
        /\ (pre.work_state[1] = "SlackingSince" /\ HoldsTimebox(pre)) =>
              /\ work_state = Working
              /\ op.ts = TimerState(FALSE, TRUE)
              /\ op.fired = {}
        /\ (pre.work_state = Working /\ ~HoldsTimebox(pre)) =>
              /\ work_state = SlackingSince(op.at)
              /\ op.ts = TimerState(FALSE, TRUE)
              /\ op.fired = {}
        /\ (pre.work_state = Working /\ HoldsTimebox(pre)) =>
              work_state = Working /\ op.ts = TimerState(FALSE, FALSE)

\* a tick took the board from SlackingSince back to Working because an
\* active job holds a timebox
C25_Witness ==
    /\ NoStampFired
    /\ pre.work_state[1] = "SlackingSince"
    /\ HoldsTimebox(pre)
    /\ work_state = Working


----------------------------------------------------------------------------
(* Invariants of the board under the commands *)

\* C26: from the empty board, through create_job, create_suspended_job,
\* suspend, resume, complete and tick, every SuspendedStack.data is non-empty,
\* so that resume_matching can read each stack's first job, and a suspend or
\* resume that finds nothing returns its failure instead of panicking
C26_NonEmptyData ==
    /\ \A k \in DOMAIN suspended_stacks : Len(suspended_stacks[k].data) >= 1
    /\ \A pattern \in Patterns :
          /\ ~resume_matching(LoadBoard, substring_matcher(pattern), now).panic
          /\ ~suspend_matching(LoadBoard, substring_matcher(pattern), "None", None, now).panic
    /\ ~resume_at_index(LoadBoard, 0, now).panic

\* a stack of two jobs is suspended and a resume by name has just failed on
\* it: the pattern matches its second job only
C26_Witness ==
    /\ \E k \in DOMAIN suspended_stacks : Len(suspended_stacks[k].data) = 2
    /\ op.name = "resume_job_named"
    /\ ~op.ok


\* C27: timeboxed tasks cannot have subtasks: no job sits above a job with a
\* timebox in active_stack, whatever create_job, apply_timebox, suspend,
\* resume and complete did; and a create_job on a board whose top job has a
\* timebox pushes nothing
C27_NoJobAboveTimebox ==
    /\ \A i \in DOMAIN active_stack :
          i < Len(active_stack) => active_stack[i].timebox = None
    /\ (/\ op.name = "create_job"
        /\ Len(pre.active_stack) > 0
        /\ IsSome(pre.active_stack[Len(pre.active_stack)].timebox)) =>
           CurrentBoard = pre


----------------------------------------------------------------------------
(* Sorting *)

SortedTwice == op.name = "sort_suspended_stacks" /\ prev_op.name = "sort_suspended_stacks"

\* an untimed stack stands in front of a stack whose timer lies before t
PassedTimerBehindUntimed(stacks, t) ==
    \E i, j \in DOMAIN stacks :
        /\ i < j
        /\ stacks[i].timer = None
        /\ IsSome(stacks[j].timer)
        /\ Unwrap(stacks[j].timer) < t

\* C28 as stated: sorting is idempotent: calling sort_suspended_stacks twice
\* in a row yields the same order as calling it once
C28_Original == SortedTwice => suspended_stacks = pre.suspended_stacks

\* C28: sorting is idempotent at one instant: a second sort_suspended_stacks
\* that reads the same clock value as the first leaves the order of the first,
\* for every list of timed and untimed stacks; a second sort at a later instant
\* changes the order exactly when a timer behind an untimed stack has passed
C28_SortIdempotent ==
    /\ StableSort(StableSort(suspended_stacks, now), now) = StableSort(suspended_stacks, now)
    /\ SortedTwice =>
          /\ op.at = prev_op.at => suspended_stacks = pre.suspended_stacks
          /\ suspended_stacks # pre.suspended_stacks
                <=> PassedTimerBehindUntimed(pre.suspended_stacks, op.at)

\* two sorts at the same instant, the first of which moved a timed stack in
\* front of two untimed ones
C28_Witness ==
    /\ SortedTwice
    /\ op.at = prev_op.at
    /\ Len(pre_prev.suspended_stacks) = 3
    /\ pre_prev.suspended_stacks # pre.suspended_stacks
    /\ pre.suspended_stacks[2].timer = None
    /\ pre.suspended_stacks[3].timer = None
    /\ pre.suspended_stacks[2] # pre.suspended_stacks[3]
    /\ suspended_stacks = pre.suspended_stacks


----------------------------------------------------------------------------
(* Conservation and failure *)

\* how many jobs of the board carry the label
LabelCount(b, label) ==
    Cardinality({ i \in DOMAIN b.active_stack : b.active_stack[i].label = label })
    + Cardinality({ ki \in UNION { { <<k, i>> : i \in DOMAIN b.suspended_stacks[k].data } :
                                     k \in DOMAIN b.suspended_stacks } :
                      b.suspended_stacks[ki[1]].data[ki[2]].label = label })

SuspendOrResume ==
    op.name \in { "suspend_at", "suspend_matching", "resume_at_index", "resume_matching" }

\* C29: job conservation: suspend_at, suspend_matching, resume_at_index and
\* resume_matching, failing or not, leave the multiset of job labels over
\* active_stack and all suspended stacks as it was; of all the calls only pop
\* takes a job away, the one it returns
C29_JobConservation ==
    /\ SuspendOrResume =>
          \A label \in Labels : LabelCount(CurrentBoard, label) = LabelCount(pre, label)
    /\ (op.name # "none" /\ op.name # "pop") =>
          \A label \in Labels : LabelCount(CurrentBoard, label) >= LabelCount(pre, label)
    /\ (op.name = "pop" /\ IsSome(op.ret)) =>
          \A label \in Labels :
              LabelCount(CurrentBoard, label) =
                  LabelCount(pre, label) - (IF Unwrap(op.ret).label = label THEN 1 ELSE 0)

\* a resume by name put a stack of two jobs onto a non-empty active stack and
\* another stack stayed suspended
C29_Witness ==
    /\ op.name = "resume_matching"
    /\ op.ok
    /\ Len(pre.active_stack) >= 1
    /\ Len(active_stack) = Len(pre.active_stack) + 2
    /\ Len(suspended_stacks) = 1

\* C30: when suspend_at, suspend_matching, resume_at_index or resume_matching
\* returns a failure, active_stack and suspended_stacks are as they were before
\* the call, contents and order
C30_FailureChangesNothing ==
    (SuspendOrResume /\ ~op.ok) =>
        /\ op.ret # <<"panic">>
        /\ active_stack = pre.active_stack
        /\ suspended_stacks = pre.suspended_stacks

\* a suspend by name found no job on a board with an active job and two
\* suspended stacks that a sort at that instant would have reordered
C30_Witness ==
    /\ op.name = "suspend_matching"
    /\ ~op.ok
    /\ Len(pre.active_stack) >= 1
    /\ Len(pre.suspended_stacks) = 2
    /\ StableSort(pre.suspended_stacks, op.at) # pre.suspended_stacks
    /\ suspended_stacks = pre.suspended_stacks


----------------------------------------------------------------------------
(* The TimerState and the notifier's use of it *)

\* C31: every TimerState that update_timers returns has needs_save whenever
\* it has send_alarm, on every board and at every instant, and the tick that
\* alarms leaves a board that differs from the loaded one by the stamp or the
\* work_state that holds back the next alarm
C31_AlarmNeedsSave ==
    /\ LET r == update_timers(LoadBoard, now)
       IN  r.ts.send_alarm => (r.ts.needs_save /\ r.board # LoadBoard)
    /\ (Ticked /\ op.ts.send_alarm) =>
          /\ op.ts.needs_save
          /\ CurrentBoard # pre
          /\ ~update_timers(CurrentBoard, op.at).ts.send_alarm
                \/ update_timers(CurrentBoard, op.at).fired # op.fired

\* a tick raised the idle alarm, the one alarm that stamps no job and no stack
C31_Witness ==
    /\ Ticked
    /\ op.fired = { <<"idle">> }
    /\ op.ts = TimerState(TRUE, TRUE)
    /\ work_state = SlackingSince(op.at)
    /\ pre.work_state # work_state


\* C32: a tick that returns needs_save = false has changed no field of the
\* board, and the notifier does not write jobs.ron in that iteration: it
\* reaches its save only with needs_save, and every write a notifier made is
\* of a board that its tick had changed, so an iteration without alarm and
\* without a work_state change leaves a command's file alone
C32_NoSaveNoWrite ==
    /\ LET r == update_timers(LoadBoard, now)
       IN  /\ ~r.ts.needs_save => r.board = LoadBoard
           /\ (~r.ts.send_alarm /\ r.board.work_state = LoadBoard.work_state) =>
                 ~r.ts.needs_save
    /\ \A n \in NotifierIds :
          /\ notifiers[n].pc = "save" => notifiers[n].ts.needs_save
          /\ ~notifiers[n].ts.needs_save => notifiers[n].mem = notifiers[n].loaded
    /\ last_write.by \in NotifierIds => last_write.copy # last_write.loaded

\* a notifier went through an iteration without needs_save after a command
\* had saved a job, and jobs.ron is still the command's
C32_Witness ==
    \E n \in NotifierIds :
        /\ notifiers[n].pc = "sleep"
        /\ ~notifiers[n].ts.needs_save
        /\ notifiers[n].seen >= 1
        /\ Len(notifiers[n].loaded.active_stack) >= 1
        /\ last_write.by = 0
        /\ LoadBoard = notifiers[n].loaded


----------------------------------------------------------------------------
(* Liveness of the alarms *)

\* every stack whose timer has passed and every job whose timebox has expired
\* carries the stamp of an alarm
AllAlarmed ==
    /\ \A k \in DOMAIN suspended_stacks :
          timer_exhausted(suspended_stacks[k], now) =>
              IsSome(suspended_stacks[k].last_notifiaction)
    /\ \A i \in DOMAIN active_stack :
          timebox_expired(active_stack[i], now) => IsSome(active_stack[i].last_notification)

\* C33: alarm liveness: while the notifier keeps ticking and no command
\* changes the board, every suspended stack whose timer has passed and every
\* active job whose timebox has expired is eventually stamped and alarmed,
\* also when several are due at once
C33_AlarmLiveness == <>AllAlarmed


----------------------------------------------------------------------------
(* Overlap of notifiers *)

\* the lock file holds content that makes notifier n leave at its next read
Foreign(n) == lock.exists /\ lock_mismatch(lock, n)

\* C34 as stated: once a superseding token or the kill sentinel has been written, an
\* older notifier performs at most one more tick before it exits.
C34_Original ==
    \A n \in NotifierIds : notifiers[n].late <= 1

\* C34: while the lock file holds a superseding token or the kill sentinel, an older
\* notifier performs at most one more tick after that write, the tick of an iteration
\* whose lock-file read came before the write, and leaves at its next read; it ticks
\* again only in an iteration that found the lock file deleted by a later spawn.
C34_BoundedOverlap ==
    \A n \in NotifierIds :
        /\ (Foreign(n) /\ n \in Running) => notifiers[n].late <= 1
        /\ (Foreign(n) /\ notifiers[n].pc = "load") =>
              /\ notifiers[n].late = 0
              /\ notifiers[n].read # lock
              /\ notifiers[n].read \in {Absent, Uuid(n)}
        /\ (Foreign(n) /\ notifiers[n].pc = "exited" /\ notifiers[n].reason = "lock") =>
              notifiers[n].read.exists
        /\ notifiers[n].late >= 2 => notifiers[n].read = Absent

\* the sentinel was written after a notifier had read its own token; the notifier
\* ticked once more and left at its next read
C34_Witness ==
    \E n \in NotifierIds :
        /\ lock = KillSentinel
        /\ notifiers[n].superseded
        /\ notifiers[n].late = 1
        /\ notifiers[n].pc = "exited"
        /\ notifiers[n].reason = "lock"
        /\ notifiers[n].read = KillSentinel

====
